---- MODULE Spec2Model ----
(***************************************************************************)
(* The editing session of src/index.tsx: the single <video> element, the   *)
(* editor mode with its two trim sliders, the in-flight asynchronous       *)
(* handlers (generate, applyTrim, handleApplyEffect, merge), the shared    *)
(* FFmpeg file system they write to, and the dispatcher table `tools`.     *)
(*                                                                         *)
(* Time is counted in ticks of 0.1 s, the step of the trim sliders         *)
(* (index.tsx:541); media durations are taken on that grid.  Every `await` *)
(* of a handler is a point where other handlers and events run: a handler  *)
(* is one action for its synchronous start and one action per resumption.  *)
(***************************************************************************)
EXTENDS Integers, Sequences, FiniteSets, TLC

\* ------------------------------------------------------------------ bounds
MaxDur == 12            \* longest media that is produced, ticks
MaxOps == 2             \* applyTrim / handleApplyEffect calls in flight
MaxGens == 2            \* generate() calls in flight
MaxSessionGens == 1     \* the same in the sessions without overlapping generations
MaxLoops == 2           \* sendMessage calls in flight
MaxBin == 2             \* clips in the merge bin
MaxMerges == 1          \* merge handlers in flight
MaxDownloads == 1       \* downloads in flight that a finished job adds to
MaxAdds == 1            \* add-to-bin handlers in flight
MaxCameraRequests == 1  \* startRecording calls waiting for the camera
MaxUploads == 1         \* upload handlers reading their file
MaxRecorders == 1       \* MediaRecorder objects recording at once
MaxStops == 1           \* 'stop' events of recorders not yet delivered
MaxSaves == 1           \* save handlers before their dbAddClip
MaxRequests == 2        \* transactions of the clip store not yet finished
MaxKey == 4             \* keys the store's generator hands out
MaxSeconds == 31        \* ticks counted by recordingSeconds

\* -------------------------------------------------------- program constants
TicksPerSecond == 10          \* slider step '0.1' s
FadeMinDuration == 20         \* fade needs duration >= 2 s
PreviewDuration == 1          \* generate(true) asks for 1 s
InitialDuration == 1          \* let duration = 1
DefaultSliderMax == 1000      \* max of a range input whose attribute is no number: 100 s
NaN == -1                     \* video.duration before 'loadedmetadata'
MAX_RECORDING_DURATION == 30  \* seconds

\* Inputs the events are drawn from.
TimeChoices == {0, 1, 2, 3}
TrimArgs == TimeChoices \cup {-2}     \* and a time below zero
DurationChoices == {1, 2}
EffectChoices == {"grayscale", "fade", "slowmo", "fastforward", "bogus"}
ValidEffects == {"grayscale", "sepia", "vignette", "fade", "slowmo", "fastforward"}
StoredClips == {<< >>, <<[id |-> 1, dur |-> 2, name |-> "a"],
                         [id |-> 2, dur |-> 3, name |-> "a"],
                         [id |-> 3, dur |-> 20, name |-> "a"]>>}
NameChoices == {"a", "b"}     \* what the user types into prompt()
ShortClips == {1, 2}          \* the clips of the library shorter than a second
VideoCounts == {0, 1}
JobVideoCounts == {0, 1, 2}   \* generatedVideos of a job that returns several
ToolNames == {"setPrompt", "setAspectRatio", "setDuration", "setQuality",
              "clickGenerate", "openEditor", "closeEditor", "trimVideo",
              "applyEffect"}
Undefined == "undefined"      \* what a missing field or map entry reads as
Thrown == "TypeError"         \* the tool call threw instead of returning
AspectRatios == {"16:9", "9:16", "1:1", "4:3", "3:4"}
Resolutions == {"720p", "1080p"}
PromptArgs == {"a cat", Undefined}
AspectRatioArgs == {"9:16", "1:1", "2:1", Undefined}
DurationArgs == {0, 1, 2}
QualityArgs == {"standard", "high", "ultra", Undefined}

NoVideo == [origin |-> "none", dur |-> 0]
NoFile == [origin |-> "none", dur |-> 0]

VARIABLES
  pageLoaded,          \* the DOMContentLoaded handler has reached loadFFmpeg
  ffmpeg,              \* "null" | "loading" | "loaded" | "failed"
  loadCaller,          \* who awaits ffmpeg.load(): "none" | "page" | "edit"
  videoSrc,            \* the media behind video.src, NoVideo for ''
  staleUrl,            \* an object URL video.src held before is not revoked
  videoDuration,       \* video.duration: NaN until loadedmetadata
  metaPending,         \* a loadedmetadata event is due for video.src
  metaListener,        \* handleApplyEffect's once-listener is registered
  videoDisplay,        \* video.style.display = 'block'
  controlsDisplay,     \* videoControlsContainer is displayed
  editorDisplay,       \* videoEditorContainer is displayed
  quotaDisplay,        \* quotaErrorEl is displayed
  isEditorOpen,
  sliderMax,           \* the max attribute of both sliders, NaN if no number
  trimStart,           \* trimStartSlider.value
  trimEnd,             \* trimEndSlider.value
  effectsSelect,       \* effectsSelect.value
  editButtonsDisabled, \* applyTrimButton, cancelTrimButton, applyEffectButton
  genControlsDisabled, \* generateButton ... recordButton
  mergeDisabled,       \* mergeVideosButton.disabled
  prompt,              \* the generation prompt
  aspectRatio,         \* the generation setting
  duration,            \* the generation setting, seconds
  resolution,          \* the generation setting
  status,              \* statusEl.innerText
  gens,                \* generate() calls in flight
  downloads,           \* videos.forEach callbacks in flight
  ops,                 \* applyTrim / handleApplyEffect calls in flight
  merges,              \* merge handlers in flight
  adds,                \* handlers of addToMergeBinButton in flight
  mergeBin,
  myClips,
  fsIn,                \* FFmpeg file 'input.mp4', by its duration
  fsOut,               \* FFmpeg file 'output.mp4'
  fsParts,             \* FFmpeg files 'input0.mp4', 'input1.mp4', ...
  fsList,              \* how many of them 'mylist.txt' names
  toolResult,          \* the string the last finished tool call returned,
                       \* Thrown if it threw
  loops,               \* sendMessage calls in flight
  sendDisabled,        \* agentSendButton.disabled
  agentMessages,       \* what the sendMessage call that ended last added to
                       \* the chat window as sender 'agent'
  cameraRequests,      \* startRecording calls awaiting getUserMedia
  mediaRecorder,       \* "null", or the state of the recorder it refers to:
                       \* "recording" | "inactive"
  recorders,           \* MediaRecorder objects that are recording
  isVideoRecording,
  timers,              \* intervals of startRecording that are running
  timerArmed,          \* recordingTimerInterval is not null
  recordingSeconds,
  stopsPending,        \* 'stop' events due after mediaRecorder.stop()
  recordedVideoBlob,   \* recordedVideoBlob is not null
  base64data,          \* "" or the image it encodes
  uploads,             \* upload handlers awaiting blobToBase64
  store,               \* the records of the object store 'clips'
  lastKey,             \* the store's key generator (autoIncrement)
  saves,               \* save handlers awaiting fetch and thumbnail
  dbQueue              \* transactions on the store, in the order they run

vars == <<pageLoaded, ffmpeg, loadCaller, videoSrc, staleUrl, videoDuration,
          metaPending,
          metaListener, videoDisplay, controlsDisplay, editorDisplay,
          quotaDisplay,
          isEditorOpen, sliderMax, trimStart, trimEnd, effectsSelect,
          editButtonsDisabled, genControlsDisabled, mergeDisabled, prompt,
          aspectRatio, duration, resolution,
          status, gens, downloads, ops, merges, adds, mergeBin, myClips, fsIn,
          fsOut,
          fsParts, fsList, toolResult, loops, sendDisabled, agentMessages,
          cameraRequests, mediaRecorder, recorders, isVideoRecording, timers,
          timerArmed, recordingSeconds, stopsPending, recordedVideoBlob,
          base64data, uploads, store, lastKey, saves, dbQueue>>

videoVars == <<videoSrc, videoDuration, metaPending, staleUrl>>
displayVars == <<videoDisplay, controlsDisplay, editorDisplay>>
sliderVars == <<sliderMax, trimStart, trimEnd>>
engineVars == <<pageLoaded, ffmpeg, loadCaller>>
fsVars == <<fsIn, fsOut, fsParts, fsList>>
binVars == <<merges, adds, mergeBin, myClips, mergeDisabled>>
configVars == <<prompt, aspectRatio, duration, resolution>>
genVars == <<gens, downloads, genControlsDisabled, configVars>>
agentVars == <<loops, sendDisabled, agentMessages>>
recVars == <<cameraRequests, mediaRecorder, recorders, isVideoRecording, timers,
             timerArmed, recordingSeconds, stopsPending, recordedVideoBlob,
             base64data, uploads>>
dbVars == <<store, lastKey, saves, dbQueue>>

\* ----------------------------------------------------------------- helpers
Min(a, b) == IF a <= b THEN a ELSE b
Max(a, b) == IF a >= b THEN a ELSE b

\* Math.min / Math.max: NaN if either argument is NaN.
MathMin(a, b) == IF a = NaN \/ b = NaN THEN NaN ELSE Min(a, b)
MathMax(a, b) == IF a = NaN \/ b = NaN THEN NaN ELSE Max(a, b)

\* a >= b and a <= b of JavaScript: false when either side is NaN.
Geq(a, b) == a # NaN /\ b # NaN /\ a >= b
Leq(a, b) == a # NaN /\ b # NaN /\ a <= b

\* The maximum a slider enforces: 'NaN' (or no attribute) is no valid
\* maximum, and the default of the range input applies.
SliderMaxOf(d) == IF d = NaN THEN DefaultSliderMax ELSE d

\* slider.value = v.toString(): the range input clamps the value into
\* [0, max]; a string that is no number gives the default, the midpoint
\* brought to the step grid.
SliderValue(v, max) == IF v = NaN THEN (max + 1) \div 2 ELSE Max(0, Min(v, max))

RemoveAt(s, i) == SubSeq(s, 1, i - 1) \o SubSeq(s, i + 1, Len(s))

\* What the engine produces (durations up to its rounding).
TrimDuration(d, s, e) == Max(0, Min(e, d) - Min(s, d))
EffectDuration(effect, d) ==
  CASE effect = "slowmo" -> 2 * d
    [] effect = "fastforward" -> (d + 1) \div 2
    [] OTHER -> d

\* The engine's files are followed from their writing to the last read a
\* handler in flight can make of them: 'input.mp4' is read by a pending exec,
\* 'output.mp4' by a pending readFile, and every handler writes before it
\* reads.  A file nobody in flight will read is not kept.
InputRead(os) == \E i \in DOMAIN os : os[i].pc = "exec"
OutputRead(os, ms) ==
  \/ \E i \in DOMAIN os : os[i].pc = "read"
  \/ \E m \in DOMAIN ms : ms[m].pc = "read"
KeepInput(os, f) == IF InputRead(os) THEN f ELSE 0
KeepOutput(os, ms, f) == IF OutputRead(os, ms) THEN f ELSE NoFile

ToolsInFlight == Cardinality({i \in DOMAIN ops : ops[i].caller = "tool"})

\* A tool is called by a sendMessage call that has the model's response: one
\* that is in flight and not waiting in another tool.
LoopFree == ToolsInFlight < loops

Init ==
  /\ pageLoaded = FALSE
  /\ ffmpeg = "null"
  /\ loadCaller = "none"
  /\ videoSrc = NoVideo
  /\ staleUrl = FALSE
  /\ videoDuration = NaN
  /\ metaPending = FALSE
  /\ metaListener = FALSE
  /\ videoDisplay = FALSE
  /\ controlsDisplay = FALSE
  /\ editorDisplay = FALSE
  /\ quotaDisplay = FALSE
  /\ isEditorOpen = FALSE
  /\ sliderMax = NaN
  /\ trimStart = DefaultSliderMax \div 2
  /\ trimEnd = DefaultSliderMax \div 2
  /\ effectsSelect = "none"
  /\ editButtonsDisabled = FALSE
  /\ genControlsDisabled = FALSE
  /\ mergeDisabled = FALSE
  /\ prompt = ""
  /\ aspectRatio = "16:9"
  /\ duration = InitialDuration
  /\ resolution = "720p"
  /\ status = ""
  /\ gens = << >>
  /\ downloads = << >>
  /\ ops = << >>
  /\ merges = << >>
  /\ adds = << >>
  /\ mergeBin = << >>
  /\ myClips = << >>
  /\ fsIn = 0
  /\ fsOut = NoFile
  /\ fsParts = << >>
  /\ fsList = 0
  /\ toolResult = ""
  /\ loops = 0
  /\ sendDisabled = FALSE
  /\ agentMessages = << >>
  /\ cameraRequests = 0
  /\ mediaRecorder = "null"
  /\ recorders = 0
  /\ isVideoRecording = FALSE
  /\ timers = 0
  /\ timerArmed = FALSE
  /\ recordingSeconds = 0
  /\ stopsPending = 0
  /\ recordedVideoBlob = FALSE
  /\ base64data = ""
  /\ uploads = 0
  /\ store \in StoredClips
  /\ lastKey = Len(store)
  /\ saves = << >>
  /\ dbQueue = << >>

EffMax == SliderMaxOf(sliderMax)

\* ------------------------------------------------------- the video element
\* video.src = url: the element drops the old media, and its duration is NaN
\* until the new metadata has loaded.
SetVideoSrc(v) ==
  /\ videoSrc' = v
  /\ videoDuration' = NaN
  /\ metaPending' = TRUE

\* URL.revokeObjectURL(video.src) before the assignment: the URL that is
\* replaced is released.
RevokeOld == UNCHANGED staleUrl

\* An assignment without it: the URL that is replaced, if there is one, stays.
KeepOld == staleUrl' = (staleUrl \/ videoSrc # NoVideo)

\* The trim controls as the edit handler and the effect's listener set them:
\* max first, then the two values.
ResetTrimUI(d) ==
  /\ sliderMax' = d
  /\ trimStart' = SliderValue(0, SliderMaxOf(d))
  /\ trimEnd' = SliderValue(d, SliderMaxOf(d))

\* 'loadedmetadata': the duration becomes readable; the once-listener that
\* handleApplyEffect registered resets the trim controls.  Media of length 0
\* (an empty trim) never gets there.
LoadedMetadata ==
  /\ metaPending
  /\ videoSrc.dur > 0
  /\ metaPending' = FALSE
  /\ videoDuration' = videoSrc.dur
  /\ metaListener' = FALSE
  /\ IF metaListener THEN ResetTrimUI(videoSrc.dur) ELSE UNCHANGED sliderVars
  /\ UNCHANGED <<engineVars, videoSrc, staleUrl, displayVars, isEditorOpen,
                 effectsSelect,
                 editButtonsDisabled, status, genVars, ops, binVars, fsVars,
                 toolResult>>
  /\ UNCHANGED <<agentVars, recVars, dbVars, quotaDisplay>>

\* ------------------------------------------------------------ engine load
\* loadFFmpeg() when ffmpeg is still null: the object exists from here on,
\* the caller waits for load().
StartLoad(caller) ==
  /\ ffmpeg' = "loading"
  /\ loadCaller' = caller
  /\ status' = "Loading video editor..."

\* The body of the edit handler after `await loadFFmpeg()`.
OpenEditor ==
  /\ isEditorOpen' = TRUE
  /\ controlsDisplay' = FALSE
  /\ editorDisplay' = TRUE
  /\ ResetTrimUI(videoDuration)

\* The body of the cancel handler.
CloseEditor ==
  /\ isEditorOpen' = FALSE
  /\ editorDisplay' = FALSE
  /\ controlsDisplay' = TRUE
  /\ effectsSelect' = "none"

\* The click handler of editButton: with the engine object present
\* loadFFmpeg() returns at once and the editor opens in the same turn.
EditHandler ==
  IF ffmpeg = "null"
    THEN /\ StartLoad("edit")
         /\ UNCHANGED <<isEditorOpen, controlsDisplay, editorDisplay, sliderVars>>
    ELSE /\ OpenEditor
         /\ UNCHANGED <<ffmpeg, loadCaller, status>>

\* The click handler of cancelTrimButton; a disabled button takes no click.
CancelHandler ==
  IF editButtonsDisabled
    THEN UNCHANGED <<isEditorOpen, editorDisplay, controlsDisplay, effectsSelect>>
    ELSE CloseEditor

DOMContentLoaded ==
  /\ ~pageLoaded
  /\ pageLoaded' = TRUE
  /\ myClips' = store
  /\ IF ffmpeg = "null" THEN StartLoad("page")
                        ELSE UNCHANGED <<ffmpeg, loadCaller, status>>
  /\ UNCHANGED <<videoVars, metaListener, displayVars, isEditorOpen, sliderVars,
                 effectsSelect, editButtonsDisabled, genVars, ops, merges, adds,
                 mergeBin, mergeDisabled, fsVars, toolResult>>
  /\ UNCHANGED <<agentVars, recVars, dbVars, quotaDisplay>>

FFmpegLoaded ==
  /\ ffmpeg = "loading"
  /\ ffmpeg' = "loaded"
  /\ loadCaller' = "none"
  /\ status' = "Editor loaded."
  /\ IF loadCaller = "edit"
       THEN OpenEditor
       ELSE UNCHANGED <<isEditorOpen, controlsDisplay, editorDisplay, sliderVars>>
  /\ UNCHANGED <<pageLoaded, videoVars, metaListener, videoDisplay, effectsSelect,
                 editButtonsDisabled, genVars, ops, binVars, fsVars, toolResult>>
  /\ UNCHANGED <<agentVars, recVars, dbVars, quotaDisplay>>

\* load() or a toBlobURL() rejects: the waiting handler ends there, and the
\* engine object stays in place, never loaded.
FFmpegLoadFails ==
  /\ ffmpeg = "loading"
  /\ ffmpeg' = "failed"
  /\ loadCaller' = "none"
  /\ UNCHANGED <<pageLoaded, videoVars, metaListener, displayVars, isEditorOpen,
                 sliderVars, effectsSelect, editButtonsDisabled, status, genVars,
                 ops, binVars, fsVars, toolResult>>
  /\ UNCHANGED <<agentVars, recVars, dbVars, quotaDisplay>>

\* ------------------------------------------------- editor buttons and sliders
\* The user reaches a widget only while its container is displayed: the edit
\* button with the player controls, which the edit handler hides and the
\* cancel handler shows again; the sliders, the time inputs, the effect
\* selector and the three editor buttons with the editor container.
EditClick ==
  /\ controlsDisplay
  /\ EditHandler
  /\ UNCHANGED <<pageLoaded, videoVars, metaListener, videoDisplay, effectsSelect,
                 editButtonsDisabled, genVars, ops, binVars, fsVars, toolResult>>
  /\ UNCHANGED <<agentVars, recVars, dbVars, quotaDisplay>>

CancelClick ==
  /\ editorDisplay
  /\ ~editButtonsDisabled
  /\ CancelHandler
  /\ UNCHANGED <<engineVars, videoVars, metaListener, videoDisplay, sliderVars,
                 editButtonsDisabled, status, genVars, ops, binVars, fsVars,
                 toolResult>>
  /\ UNCHANGED <<agentVars, recVars, dbVars, quotaDisplay>>

EffectsSelectChange(e) ==
  /\ editorDisplay
  /\ effectsSelect' = e
  /\ UNCHANGED <<engineVars, videoVars, metaListener, displayVars, isEditorOpen,
                 sliderVars, editButtonsDisabled, status, genVars, ops, binVars,
                 fsVars, toolResult>>
  /\ UNCHANGED <<agentVars, recVars, dbVars, quotaDisplay>>

sliderFrame == <<engineVars, videoVars, metaListener, displayVars, isEditorOpen,
                 sliderMax, effectsSelect, editButtonsDisabled, status, genVars,
                 ops, binVars, fsVars, toolResult>>

\* 'input' on trimStartSlider: the browser has put the handle at v.
TrimStartSliderInput(v) ==
  /\ editorDisplay
  /\ v <= EffMax
  /\ trimStart' = IF v >= trimEnd
                    THEN SliderValue(Max(0, trimEnd - 1), EffMax)
                    ELSE v
  /\ UNCHANGED <<trimEnd, sliderFrame>>
  /\ UNCHANGED <<agentVars, recVars, dbVars, quotaDisplay>>

\* 'input' on trimEndSlider; maxDuration is parseFloat of the max attribute.
TrimEndSliderInput(v) ==
  /\ editorDisplay
  /\ v <= EffMax
  /\ trimEnd' = IF v <= trimStart
                  THEN SliderValue(MathMin(sliderMax, trimStart + 1), EffMax)
                  ELSE v
  /\ UNCHANGED <<trimStart, sliderFrame>>
  /\ UNCHANGED <<agentVars, recVars, dbVars, quotaDisplay>>

\* 'change' on trimStartTimeInput with the number v typed in.
TrimStartTimeInputChange(v) ==
  /\ editorDisplay
  /\ LET clamped == MathMax(0, MathMin(v, videoDuration))
         startValue == IF Geq(clamped, trimEnd) THEN Max(0, trimEnd - 1)
                                                ELSE clamped
     IN trimStart' = SliderValue(startValue, EffMax)
  /\ UNCHANGED <<trimEnd, sliderFrame>>
  /\ UNCHANGED <<agentVars, recVars, dbVars, quotaDisplay>>

\* 'change' on trimEndTimeInput with the number v typed in.
TrimEndTimeInputChange(v) ==
  /\ editorDisplay
  /\ LET clamped == MathMax(0, MathMin(v, videoDuration))
         endValue == IF Leq(clamped, trimStart)
                       THEN MathMin(videoDuration, trimStart + 1)
                       ELSE clamped
     IN trimEnd' = SliderValue(endValue, EffMax)
  /\ UNCHANGED <<trimStart, sliderFrame>>
  /\ UNCHANGED <<agentVars, recVars, dbVars, quotaDisplay>>

\* ------------------------------------------ applyTrim and handleApplyEffect
\* Both return at once without an engine object or a video source.
EditRuns == ffmpeg # "null" /\ videoSrc # NoVideo

NewOp(kind, caller) ==
  [kind |-> kind, pc |-> "write", caller |-> caller, src |-> videoSrc.dur,
   s |-> 0, e |-> 0, effect |-> IF kind = "effect" THEN effectsSelect ELSE "none"]

ToolReturn(op) ==
  IF op.kind = "trim" THEN "Video trimmed successfully."
                      ELSE "Applied the effect successfully."

\* What the agent loop receives when the call op ends, whichever way.
ReturnToCaller(op) ==
  IF op.caller = "tool" THEN toolResult' = ToolReturn(op)
                        ELSE UNCHANGED toolResult

\* applyTrim() up to its first await: fetchFile(video.src) has its argument.
ApplyTrimStart(caller) ==
  /\ status' = "Trimming video... Please wait."
  /\ editButtonsDisabled' = TRUE
  /\ ops' = Append(ops, NewOp("trim", caller))

\* handleApplyEffect() up to its first await, the effect being read already.
ApplyEffectStart(caller, effect) ==
  /\ status' = "Applying effect... Please wait."
  /\ editButtonsDisabled' = TRUE
  /\ ops' = Append(ops, [NewOp("effect", caller) EXCEPT !.effect = effect])

ApplyTrimClick ==
  /\ editorDisplay
  /\ ~editButtonsDisabled
  /\ Len(ops) < MaxOps
  /\ EditRuns
  /\ ApplyTrimStart("ui")
  /\ UNCHANGED <<engineVars, videoVars, metaListener, displayVars, isEditorOpen,
                 sliderVars, effectsSelect, genVars, binVars, fsVars, toolResult>>
  /\ UNCHANGED <<agentVars, recVars, dbVars, quotaDisplay>>

ApplyEffectClick ==
  /\ editorDisplay
  /\ ~editButtonsDisabled
  /\ Len(ops) < MaxOps
  /\ EditRuns
  /\ effectsSelect # "none"
  /\ ApplyEffectStart("ui", effectsSelect)
  /\ UNCHANGED <<engineVars, videoVars, metaListener, displayVars, isEditorOpen,
                 sliderVars, effectsSelect, genVars, binVars, fsVars, toolResult>>
  /\ UNCHANGED <<agentVars, recVars, dbVars, quotaDisplay>>

\* writeFile('input.mp4') has resolved.  applyTrim reads the two sliders now;
\* handleApplyEffect builds its command, and leaves for a fade on a video
\* shorter than 2 s or of unknown duration.
FadeTooShort(op) ==
  /\ op.kind = "effect"
  /\ op.effect = "fade"
  /\ (videoDuration = NaN \/ videoDuration < FadeMinDuration)

OpWriteDone(i) ==
  /\ ops[i].pc = "write"
  /\ ffmpeg = "loaded"
  /\ IF FadeTooShort(ops[i])
       THEN /\ status' = "Video is too short for a fade effect."
            /\ editButtonsDisabled' = FALSE
            /\ ops' = RemoveAt(ops, i)
            /\ ReturnToCaller(ops[i])
       ELSE /\ ops' = [ops EXCEPT ![i].pc = "exec",
                                  ![i].s = IF ops[i].kind = "trim" THEN trimStart ELSE 0,
                                  ![i].e = IF ops[i].kind = "trim" THEN trimEnd ELSE 0]
            /\ UNCHANGED <<status, editButtonsDisabled, toolResult>>
  /\ fsIn' = KeepInput(ops', ops[i].src)
  /\ UNCHANGED <<engineVars, videoVars, metaListener, displayVars, isEditorOpen,
                 sliderVars, effectsSelect, genVars, binVars, fsOut, fsParts, fsList>>
  /\ UNCHANGED <<agentVars, recVars, dbVars, quotaDisplay>>

\* exec() has resolved: 'output.mp4' is what the command makes of the
\* 'input.mp4' the engine holds at that time.
ExecOutput(op) ==
  IF op.kind = "trim"
    THEN [origin |-> "trim", dur |-> TrimDuration(fsIn, op.s, op.e)]
    ELSE [origin |-> "effect", dur |-> EffectDuration(op.effect, fsIn)]

OpExecDone(i) ==
  /\ ops[i].pc = "exec"
  /\ ffmpeg = "loaded"
  /\ ops[i].kind = "effect" => ops[i].effect \in ValidEffects
  /\ ExecOutput(ops[i]).dur <= MaxDur
  /\ fsOut' = ExecOutput(ops[i])
  /\ ops' = [ops EXCEPT ![i].pc = "read"]
  /\ fsIn' = KeepInput(ops', fsIn)
  /\ UNCHANGED <<engineVars, videoVars, metaListener, displayVars, isEditorOpen,
                 sliderVars, effectsSelect, editButtonsDisabled, status, genVars,
                 binVars, fsParts, fsList, toolResult>>
  /\ UNCHANGED <<agentVars, recVars, dbVars, quotaDisplay>>

\* readFile('output.mp4') has resolved: the rest of the try block and the
\* finally block.  applyTrim clicks the cancel button, which it disabled.
TrimReadDone(i) ==
  /\ ops[i].kind = "trim"
  /\ ops[i].pc = "read"
  /\ ffmpeg = "loaded"
  /\ RevokeOld
  /\ SetVideoSrc(fsOut)
  /\ status' = "Trim successful!"
  /\ CancelHandler
  /\ editButtonsDisabled' = FALSE
  /\ ops' = RemoveAt(ops, i)
  /\ ReturnToCaller(ops[i])
  /\ fsOut' = KeepOutput(ops', merges, fsOut)
  /\ UNCHANGED <<engineVars, metaListener, videoDisplay, sliderVars, genVars,
                 binVars, fsIn, fsParts, fsList>>
  /\ UNCHANGED <<agentVars, recVars, dbVars, quotaDisplay>>

EffectReadDone(i) ==
  /\ ops[i].kind = "effect"
  /\ ops[i].pc = "read"
  /\ ffmpeg = "loaded"
  /\ RevokeOld
  /\ SetVideoSrc(fsOut)
  /\ metaListener' = TRUE
  /\ status' = "Effect applied successfully!"
  /\ effectsSelect' = "none"
  /\ editButtonsDisabled' = FALSE
  /\ ops' = RemoveAt(ops, i)
  /\ ReturnToCaller(ops[i])
  /\ fsOut' = KeepOutput(ops', merges, fsOut)
  /\ UNCHANGED <<engineVars, displayVars, isEditorOpen, sliderVars, genVars,
                 binVars, fsIn, fsParts, fsList>>
  /\ UNCHANGED <<agentVars, recVars, dbVars, quotaDisplay>>

\* The failure as it would be without the finally block: the three buttons
\* stay as the handler left them at its start.
OpFailsWithoutFinally(i) ==
  /\ status' = IF ops[i].kind = "trim"
                 THEN "An error occurred during trimming."
                 ELSE "An error occurred while applying the effect."
  /\ ops' = RemoveAt(ops, i)
  /\ ReturnToCaller(ops[i])
  /\ fsIn' = KeepInput(ops', fsIn)
  /\ fsOut' = KeepOutput(ops', merges, fsOut)
  /\ UNCHANGED <<engineVars, videoVars, metaListener, displayVars, isEditorOpen,
                 sliderVars, effectsSelect, editButtonsDisabled, genVars, binVars,
                 fsParts, fsList>>
  /\ UNCHANGED <<agentVars, recVars, dbVars, quotaDisplay>>

\* writeFile, exec or readFile rejects (always so on an engine that is not
\* loaded): the catch block and the finally block.
OpFails(i) ==
  /\ status' = IF ops[i].kind = "trim"
                 THEN "An error occurred during trimming."
                 ELSE "An error occurred while applying the effect."
  /\ editButtonsDisabled' = FALSE
  /\ ops' = RemoveAt(ops, i)
  /\ ReturnToCaller(ops[i])
  /\ fsIn' = KeepInput(ops', fsIn)
  /\ fsOut' = KeepOutput(ops', merges, fsOut)
  /\ UNCHANGED <<engineVars, videoVars, metaListener, displayVars, isEditorOpen,
                 sliderVars, effectsSelect, genVars, binVars, fsParts, fsList>>
  /\ UNCHANGED <<agentVars, recVars, dbVars, quotaDisplay>>

\* ------------------------------------------------------- the tools table
toolFrame == <<videoVars, metaListener, videoDisplay, genVars, binVars, fsVars,
               pageLoaded>>

\* openEditor as it would be without its check of video.src.
ToolOpenEditorUnchecked ==
  /\ LoopFree
  /\ IF isEditorOpen
       THEN /\ toolResult' = "The editor is already open."
            /\ UNCHANGED <<ffmpeg, loadCaller, status, isEditorOpen,
                           controlsDisplay, editorDisplay, sliderVars>>
       ELSE /\ EditHandler
            /\ toolResult' = "Video editor opened."
  /\ UNCHANGED <<toolFrame, effectsSelect, editButtonsDisabled, ops>>
  /\ UNCHANGED <<agentVars, recVars, dbVars, quotaDisplay>>

ToolOpenEditor ==
  /\ LoopFree
  /\ IF videoSrc = NoVideo
       THEN /\ toolResult' = "A video must be generated or loaded before you can open the editor."
            /\ UNCHANGED <<ffmpeg, loadCaller, status, isEditorOpen,
                           controlsDisplay, editorDisplay, sliderVars>>
       ELSE IF isEditorOpen
         THEN /\ toolResult' = "The editor is already open."
              /\ UNCHANGED <<ffmpeg, loadCaller, status, isEditorOpen,
                             controlsDisplay, editorDisplay, sliderVars>>
         ELSE /\ EditHandler
              /\ toolResult' = "Video editor opened."
  /\ UNCHANGED <<toolFrame, effectsSelect, editButtonsDisabled, ops>>
  /\ UNCHANGED <<agentVars, recVars, dbVars, quotaDisplay>>

ToolCloseEditor ==
  /\ LoopFree
  /\ IF ~isEditorOpen
       THEN /\ toolResult' = "The editor is already closed."
            /\ UNCHANGED <<isEditorOpen, editorDisplay, controlsDisplay, effectsSelect>>
       ELSE /\ CancelHandler
            /\ toolResult' = "Video editor closed."
  /\ UNCHANGED <<toolFrame, ffmpeg, loadCaller, status, sliderVars,
                 editButtonsDisabled, ops>>
  /\ UNCHANGED <<agentVars, recVars, dbVars, quotaDisplay>>

TrimArgsInvalid(s, e) ==
  videoDuration = NaN \/ s >= e \/ s < 0 \/ e > videoDuration

\* trimVideo as it would be if it wrote the sliders before checking the times.
ToolTrimVideoWritesFirst(s, e) ==
  /\ LoopFree
  /\ Len(ops) < MaxOps
  /\ IF ~isEditorOpen
       THEN /\ toolResult' = "Please open the editor first before trimming."
            /\ UNCHANGED <<trimStart, trimEnd, status, editButtonsDisabled, ops>>
       ELSE /\ trimStart' = SliderValue(s, EffMax)
            /\ trimEnd' = SliderValue(e, EffMax)
            /\ IF TrimArgsInvalid(s, e)
                 THEN /\ toolResult' = "Invalid trim times."
                      /\ UNCHANGED <<status, editButtonsDisabled, ops>>
                 ELSE IF EditRuns
                   THEN /\ ApplyTrimStart("tool")
                        /\ UNCHANGED toolResult
                   ELSE /\ toolResult' = "Video trimmed successfully."
                        /\ UNCHANGED <<status, editButtonsDisabled, ops>>
  /\ UNCHANGED <<toolFrame, ffmpeg, loadCaller, controlsDisplay, editorDisplay,
                 isEditorOpen, sliderMax, effectsSelect>>
  /\ UNCHANGED <<agentVars, recVars, dbVars, quotaDisplay>>

ToolTrimVideo(s, e) ==
  /\ LoopFree
  /\ Len(ops) < MaxOps
  /\ IF ~isEditorOpen
       THEN /\ toolResult' = "Please open the editor first before trimming."
            /\ UNCHANGED <<trimStart, trimEnd, status, editButtonsDisabled, ops>>
       ELSE IF TrimArgsInvalid(s, e)
         THEN /\ toolResult' = "Invalid trim times."
              /\ UNCHANGED <<trimStart, trimEnd, status, editButtonsDisabled, ops>>
         ELSE /\ trimStart' = SliderValue(s, EffMax)
              /\ trimEnd' = SliderValue(e, EffMax)
              /\ IF EditRuns
                   THEN /\ ApplyTrimStart("tool")
                        /\ UNCHANGED toolResult
                   ELSE /\ toolResult' = "Video trimmed successfully."
                        /\ UNCHANGED <<status, editButtonsDisabled, ops>>
  /\ UNCHANGED <<toolFrame, ffmpeg, loadCaller, controlsDisplay, editorDisplay,
                 isEditorOpen, sliderMax, effectsSelect>>
  /\ UNCHANGED <<agentVars, recVars, dbVars, quotaDisplay>>

ToolApplyEffect(name) ==
  /\ LoopFree
  /\ Len(ops) < MaxOps
  /\ IF ~isEditorOpen
       THEN /\ toolResult' = "Please open the editor first before applying effects."
            /\ UNCHANGED <<effectsSelect, status, editButtonsDisabled, ops>>
       ELSE IF name \notin ValidEffects
         THEN /\ toolResult' = "Invalid effect."
              /\ UNCHANGED <<effectsSelect, status, editButtonsDisabled, ops>>
         ELSE /\ effectsSelect' = name
              /\ IF EditRuns
                   THEN /\ ApplyEffectStart("tool", name)
                        /\ UNCHANGED toolResult
                   ELSE /\ toolResult' = "Applied the effect successfully."
                        /\ UNCHANGED <<status, editButtonsDisabled, ops>>
  /\ UNCHANGED <<toolFrame, ffmpeg, loadCaller, controlsDisplay, editorDisplay,
                 isEditorOpen, sliderVars>>
  /\ UNCHANGED <<agentVars, recVars, dbVars, quotaDisplay>>

\* ------------------------------------------------------------- generation
FinalDuration(isPreview) == IF isPreview THEN PreviewDuration ELSE duration

FinalResolution(isPreview) == IF isPreview THEN "720p" ELSE resolution
StatusGenerating(isPreview) ==
  IF isPreview THEN "Generating preview..."
               ELSE "Generating... This may take a few minutes."

NotRead == "not read"         \* an argument generate() has not evaluated yet

\* generate() up to its first await.  Without a recording that is the
\* submission inside generateContent(...), whose arguments are read on the
\* way; with a recording it is generateThumbnail(recordedVideoBlob), and
\* prompt and aspectRatio are read after it.  atCall keeps the settings as
\* they were when generate() was called.
Generate(isPreview) ==
  /\ Len(gens) < MaxGens
  /\ FinalDuration(isPreview) * TicksPerSecond <= MaxDur
  /\ status' = IF recordedVideoBlob THEN "Processing recorded video frame..."
                                    ELSE StatusGenerating(isPreview)
  /\ videoDisplay' = FALSE
  /\ controlsDisplay' = FALSE
  /\ quotaDisplay' = FALSE
  /\ editorDisplay' = FALSE
  /\ genControlsDisabled' = TRUE
  /\ gens' = Append(gens,
       [pc |-> IF recordedVideoBlob THEN "thumbnail" ELSE "submit",
        preview |-> isPreview,
        dur |-> FinalDuration(isPreview) * TicksPerSecond,
        resolution |-> FinalResolution(isPreview),
        image |-> IF recordedVideoBlob THEN "frame" ELSE base64data,
        prompt |-> IF recordedVideoBlob THEN NotRead ELSE prompt,
        aspectRatio |-> IF recordedVideoBlob THEN NotRead ELSE aspectRatio,
        atCall |-> [prompt |-> prompt, aspectRatio |-> aspectRatio,
                    duration |-> duration, resolution |-> resolution,
                    image |-> IF recordedVideoBlob THEN "frame" ELSE base64data]])

genFrame == <<engineVars, videoVars, metaListener, isEditorOpen, sliderVars,
              effectsSelect, editButtonsDisabled, ops, binVars, fsVars>>

GenerateClick(isPreview) ==
  /\ ~genControlsDisabled
  /\ Generate(isPreview)
  /\ UNCHANGED <<genFrame, downloads, configVars, toolResult>>
  /\ UNCHANGED <<agentVars, recVars, dbVars>>

ToolClickGenerate ==
  /\ LoopFree
  /\ Generate(FALSE)
  /\ toolResult' = "Starting video generation..."
  /\ UNCHANGED <<genFrame, downloads, configVars>>
  /\ UNCHANGED <<agentVars, recVars, dbVars>>

DurationInputChange(d) ==
  /\ ~genControlsDisabled
  /\ duration' = d
  /\ UNCHANGED <<prompt, aspectRatio, resolution>>
  /\ UNCHANGED <<engineVars, videoVars, metaListener, displayVars, isEditorOpen,
                 sliderVars, effectsSelect, editButtonsDisabled, status, gens,
                 downloads, genControlsDisabled, ops, binVars, fsVars, toolResult>>
  /\ UNCHANGED <<agentVars, recVars, dbVars, quotaDisplay>>

ToolSetDuration(d) ==
  /\ LoopFree
  /\ duration' = d
  /\ UNCHANGED <<prompt, aspectRatio, resolution>>
  /\ toolResult' = "Duration set."
  /\ UNCHANGED <<engineVars, videoVars, metaListener, displayVars, isEditorOpen,
                 sliderVars, effectsSelect, editButtonsDisabled, status, gens,
                 downloads, genControlsDisabled, ops, binVars, fsVars>>
  /\ UNCHANGED <<agentVars, recVars, dbVars, quotaDisplay>>

\* ------------------------------------------- the other generation settings
\* The three elements are disabled while generate() runs, like durationInput.
PromptInput(p) ==
  /\ ~genControlsDisabled
  /\ prompt' = p
  /\ UNCHANGED <<engineVars, videoVars, metaListener, displayVars, isEditorOpen,
                 sliderVars, effectsSelect, editButtonsDisabled, status, gens,
                 downloads, genControlsDisabled, aspectRatio, duration,
                 resolution, ops, binVars, fsVars, toolResult>>
  /\ UNCHANGED <<agentVars, recVars, dbVars, quotaDisplay>>

AspectRatioSelectChange(a) ==
  /\ ~genControlsDisabled
  /\ aspectRatio' = a
  /\ UNCHANGED <<engineVars, videoVars, metaListener, displayVars, isEditorOpen,
                 sliderVars, effectsSelect, editButtonsDisabled, status, gens,
                 downloads, genControlsDisabled, prompt, duration, resolution,
                 ops, binVars, fsVars, toolResult>>
  /\ UNCHANGED <<agentVars, recVars, dbVars, quotaDisplay>>

QualitySelectChange(r) ==
  /\ ~genControlsDisabled
  /\ resolution' = r
  /\ UNCHANGED <<engineVars, videoVars, metaListener, displayVars, isEditorOpen,
                 sliderVars, effectsSelect, editButtonsDisabled, status, gens,
                 downloads, genControlsDisabled, prompt, aspectRatio, duration,
                 ops, binVars, fsVars, toolResult>>
  /\ UNCHANGED <<agentVars, recVars, dbVars, quotaDisplay>>

\* tools.setPrompt, setAspectRatio and setQuality assign what they are given;
\* a field the argument object lacks reads as undefined.
ToolSetPrompt(p) ==
  /\ LoopFree
  /\ prompt' = p
  /\ toolResult' = "Prompt set."
  /\ UNCHANGED <<engineVars, videoVars, metaListener, displayVars, isEditorOpen,
                 sliderVars, effectsSelect, editButtonsDisabled, status, gens,
                 downloads, genControlsDisabled, aspectRatio, duration,
                 resolution, ops, binVars, fsVars>>
  /\ UNCHANGED <<agentVars, recVars, dbVars, quotaDisplay>>

ToolSetAspectRatio(a) ==
  /\ LoopFree
  /\ aspectRatio' = a
  /\ toolResult' = "Aspect ratio set."
  /\ UNCHANGED <<engineVars, videoVars, metaListener, displayVars, isEditorOpen,
                 sliderVars, effectsSelect, editButtonsDisabled, status, gens,
                 downloads, genControlsDisabled, prompt, duration, resolution,
                 ops, binVars, fsVars>>
  /\ UNCHANGED <<agentVars, recVars, dbVars, quotaDisplay>>

\* qualityMap[args.newQuality]
QualityMap(q) ==
  CASE q = "standard" -> "720p"
    [] q = "high" -> "1080p"
    [] OTHER -> Undefined

ToolSetQuality(q) ==
  /\ LoopFree
  /\ resolution' = QualityMap(q)
  /\ toolResult' = "Video quality set."
  /\ UNCHANGED <<engineVars, videoVars, metaListener, displayVars, isEditorOpen,
                 sliderVars, effectsSelect, editButtonsDisabled, status, gens,
                 downloads, genControlsDisabled, prompt, aspectRatio, duration,
                 ops, binVars, fsVars>>
  /\ UNCHANGED <<agentVars, recVars, dbVars, quotaDisplay>>

\* A handler that reads a property of undefined throws a TypeError before it
\* has assigned anything.  arg is "none" for a call without an argument
\* object and "empty" for an object without the fields of the schema.
\* setPrompt, setAspectRatio and setQuality read fields of args only;
\* setDuration calls args.newDuration.toString(); trimVideo reads
\* args.startTime once the editor is open and the duration is a number, and
\* calls args.startTime.toString() when the comparisons with undefined have
\* let an empty object through; applyEffect reads args.effectName once the
\* editor is open.
Throws(name, arg) ==
  CASE name \in {"setPrompt", "setAspectRatio", "setQuality"} -> arg = "none"
    [] name = "setDuration" -> TRUE
    [] name = "trimVideo" -> isEditorOpen /\ videoDuration # NaN
    [] name = "applyEffect" -> isEditorOpen /\ arg = "none"
    [] OTHER -> FALSE

\* `await (tool as any)(args)` rejects: sendMessage goes to its catch block
\* and through finally.
ToolThrows(name, arg) ==
  /\ LoopFree
  /\ Throws(name, arg)
  /\ toolResult' = Thrown
  /\ agentMessages' = <<"Sorry, I encountered an error. Please try again.">>
  /\ sendDisabled' = FALSE
  /\ loops' = loops - 1
  /\ UNCHANGED <<engineVars, videoVars, metaListener, displayVars, isEditorOpen,
                 sliderVars, effectsSelect, editButtonsDisabled, status, genVars,
                 ops, binVars, fsVars, recVars, dbVars, quotaDisplay>>

\* generateThumbnail resolves: generateContent(prompt, ..., aspectRatio, ...)
\* is called with the settings as they are now.
ThumbnailDone(i) ==
  /\ gens[i].pc = "thumbnail"
  /\ status' = StatusGenerating(gens[i].preview)
  /\ gens' = [gens EXCEPT ![i] = [@ EXCEPT !.pc = "submit", !.prompt = prompt,
                                           !.aspectRatio = aspectRatio]]
  /\ UNCHANGED <<genFrame, displayVars, downloads, genControlsDisabled,
                 configVars, toolResult>>
  /\ UNCHANGED <<agentVars, recVars, dbVars, quotaDisplay>>

\* generateThumbnail rejects: generate() returns through finally.
ThumbnailFails(i) ==
  /\ gens[i].pc = "thumbnail"
  /\ status' = "Failed to get frame from video."
  /\ genControlsDisabled' = FALSE
  /\ gens' = RemoveAt(gens, i)
  /\ UNCHANGED <<genFrame, displayVars, downloads, configVars, toolResult>>
  /\ UNCHANGED <<agentVars, recVars, dbVars, quotaDisplay>>

\* One turn of the polling loop of generateContent.
GenPoll(i) ==
  /\ gens[i].pc = "submit"
  /\ status' = "Generating... (reassuring message)"
  /\ gens' = [gens EXCEPT ![i].pc = "poll"]
  /\ UNCHANGED <<genFrame, displayVars, downloads, genControlsDisabled,
                 configVars, toolResult>>
  /\ UNCHANGED <<agentVars, recVars, dbVars, quotaDisplay>>

\* The operation is done with n videos.  None: generateContent throws, and
\* generate shows the message.  Otherwise forEach starts one download per
\* video and generateContent returns without waiting for them.
GenDone(i, n) ==
  /\ gens[i].pc # "thumbnail"
  /\ downloads = << >> \/ Len(downloads) + n <= MaxDownloads
  /\ status' = IF n = 0 THEN "No videos generated"
               ELSE IF gens[i].preview THEN "Preview ready." ELSE "Done."
  /\ downloads' = downloads \o [k \in 1..n |-> [index |-> k, dur |-> gens[i].dur]]
  /\ genControlsDisabled' = FALSE
  /\ gens' = RemoveAt(gens, i)
  /\ UNCHANGED <<genFrame, displayVars, configVars, toolResult>>
  /\ UNCHANGED <<agentVars, recVars, dbVars, quotaDisplay>>

\* The errors generate() tells apart: whether the message contains 'network'
\* or 'failed to fetch', and the code of the provider error the message
\* carries as JSON, 0 if it carries none.
GenErrors == [network : BOOLEAN, code : {0, 429, 500}]
PlainError == [network |-> FALSE, code |-> 0]
NetworkMessage == "Network error. Please check your internet connection and try again."

\* The catch block of generate(): the message is searched first, the code is
\* looked at only if that finds nothing.
StatusOfError(err) ==
  IF err.network THEN NetworkMessage
  ELSE IF err.code = 429 THEN ""
  ELSE IF err.code # 0 THEN "API Error"
  ELSE "Generation failed."

ShowsQuota(err) == ~err.network /\ err.code = 429

\* generateVideos or getVideosOperation rejects with err.
GenFailsWith(i, err) ==
  /\ gens[i].pc # "thumbnail"
  /\ status' = StatusOfError(err)
  /\ quotaDisplay' = (quotaDisplay \/ ShowsQuota(err))
  /\ genControlsDisabled' = FALSE
  /\ gens' = RemoveAt(gens, i)
  /\ UNCHANGED <<genFrame, displayVars, downloads, configVars, toolResult>>
  /\ UNCHANGED <<agentVars, recVars, dbVars>>

\* The same with an error that is neither of the network nor of the provider.
GenFails(i) == GenFailsWith(i, PlainError)

\* The media of a download: "gen" is the first of the job's videos.
GenVideo(dl) ==
  [origin |-> IF dl.index = 1 THEN "gen" ELSE "gen2", dur |-> dl.dur]

\* The forEach callback after fetch and blob: the player gets the video.
DownloadDone(j) ==
  /\ KeepOld
  /\ SetVideoSrc(GenVideo(downloads[j]))
  /\ videoDisplay' = TRUE
  /\ controlsDisplay' = TRUE
  /\ downloads' = RemoveAt(downloads, j)
  /\ UNCHANGED <<engineVars, metaListener, editorDisplay, isEditorOpen,
                 sliderVars, effectsSelect, editButtonsDisabled, status, gens,
                 genControlsDisabled, configVars, ops, binVars, fsVars, toolResult>>
  /\ UNCHANGED <<agentVars, recVars, dbVars, quotaDisplay>>

\* fetch or blob rejects inside the callback: nothing catches it.
DownloadFails(j) ==
  /\ downloads' = RemoveAt(downloads, j)
  /\ UNCHANGED <<engineVars, videoVars, metaListener, displayVars, isEditorOpen,
                 sliderVars, effectsSelect, editButtonsDisabled, status, gens,
                 genControlsDisabled, configVars, ops, binVars, fsVars, toolResult>>
  /\ UNCHANGED <<agentVars, recVars, dbVars, quotaDisplay>>

\* ------------------------------------------------ clip library and merge bin
clipFrame == <<engineVars, metaListener, displayVars, isEditorOpen, sliderVars,
               effectsSelect, editButtonsDisabled, genVars, ops, adds, fsVars,
               toolResult>>

\* renderMergeBin(): the merge button follows the size of the bin.
RenderMergeBin == mergeDisabled' = (Len(mergeBin') < 2)

ClipLoadClick(k) ==
  /\ KeepOld
  /\ SetVideoSrc([origin |-> "clip", dur |-> myClips[k].dur])
  /\ UNCHANGED <<clipFrame, status, binVars>>
  /\ UNCHANGED <<agentVars, recVars, dbVars, quotaDisplay>>

ClipAddToBinClick(k) ==
  /\ Len(mergeBin) < MaxBin
  /\ mergeBin' = Append(mergeBin, myClips[k])
  /\ RenderMergeBin
  /\ UNCHANGED <<clipFrame, videoVars, status, merges, myClips>>
  /\ UNCHANGED <<agentVars, recVars, dbVars, quotaDisplay>>

RemoveFromBinClick(k) ==
  /\ mergeBin' = RemoveAt(mergeBin, k)
  /\ RenderMergeBin
  /\ UNCHANGED <<clipFrame, videoVars, status, merges, myClips>>
  /\ UNCHANGED <<agentVars, recVars, dbVars, quotaDisplay>>

ClearBinClick ==
  /\ mergeBin # << >>
  /\ mergeBin' = << >>
  /\ RenderMergeBin
  /\ UNCHANGED <<clipFrame, videoVars, status, merges, myClips>>
  /\ UNCHANGED <<agentVars, recVars, dbVars, quotaDisplay>>

\* ----------------------------------------- the current video into the bin
addFrame == <<engineVars, metaListener, displayVars, isEditorOpen, sliderVars,
              effectsSelect, editButtonsDisabled, genVars, ops, fsVars,
              toolResult>>

\* The click handler of addToMergeBinButton up to `await fetch(video.src)`.
AddToBinClick ==
  /\ videoSrc # NoVideo
  /\ Len(adds) < MaxAdds
  /\ status' = "Adding to bin..."
  /\ adds' = Append(adds, [dur |-> videoSrc.dur])
  /\ UNCHANGED <<addFrame, videoVars, merges, mergeBin, myClips, mergeDisabled>>
  /\ UNCHANGED <<agentVars, recVars, dbVars, quotaDisplay>>

\* fetch, blob and generateThumbnail have resolved: addToMergeBin, then the
\* finally block.
AddToBinDone(a) ==
  /\ Len(mergeBin) < MaxBin
  /\ mergeBin' = Append(mergeBin, [id |-> 0, dur |-> adds[a].dur])
  /\ RenderMergeBin
  /\ status' = "Added to bin."
  /\ adds' = RemoveAt(adds, a)
  /\ UNCHANGED <<addFrame, videoVars, merges, myClips>>
  /\ UNCHANGED <<agentVars, recVars, dbVars, quotaDisplay>>

\* One of them rejects: the catch block writes 'Error adding video to bin.'
\* and the finally block writes over it.
AddToBinFails(a) ==
  /\ status' = "Added to bin."
  /\ adds' = RemoveAt(adds, a)
  /\ UNCHANGED <<addFrame, videoVars, merges, mergeBin, myClips, mergeDisabled>>
  /\ UNCHANGED <<agentVars, recVars, dbVars, quotaDisplay>>

mergeFrame == <<engineVars, metaListener, displayVars, isEditorOpen, sliderVars,
                effectsSelect, editButtonsDisabled, genVars, ops, adds, myClips,
                toolResult>>

\* The handler as it would be if it took any bin that is not empty.
MergeClickNoMinimum ==
  /\ mergeBin # << >>
  /\ ~mergeDisabled
  /\ Len(merges) < MaxMerges
  /\ IF ffmpeg = "null"
       THEN /\ status' = "Add at least 2 videos to merge."
            /\ UNCHANGED <<mergeDisabled, merges>>
       ELSE /\ status' = "Merging videos... This may take a moment."
            /\ mergeDisabled' = TRUE
            /\ merges' = Append(merges, [pc |-> "write", i |-> 0, cur |-> mergeBin[1],
                                       start |-> mergeBin])
  /\ UNCHANGED <<mergeFrame, videoVars, mergeBin, fsVars>>
  /\ UNCHANGED <<agentVars, recVars, dbVars, quotaDisplay>>

\* The click handler of mergeVideosButton up to its first await. The field
\* `start` of a merge is history: the bin as the handler found it, which the
\* code does not keep.
MergeClick ==
  /\ mergeBin # << >>
  /\ ~mergeDisabled
  /\ Len(merges) < MaxMerges
  /\ IF Len(mergeBin) < 2 \/ ffmpeg = "null"
       THEN /\ status' = "Add at least 2 videos to merge."
            /\ UNCHANGED <<mergeDisabled, merges>>
       ELSE /\ status' = "Merging videos... This may take a moment."
            /\ mergeDisabled' = TRUE
            /\ merges' = Append(merges, [pc |-> "write", i |-> 0, cur |-> mergeBin[1],
                                       start |-> mergeBin])
  /\ UNCHANGED <<mergeFrame, videoVars, mergeBin, fsVars>>
  /\ UNCHANGED <<agentVars, recVars, dbVars, quotaDisplay>>

PutFile(files, n, f) ==
  IF n <= Len(files) THEN [files EXCEPT ![n] = f] ELSE Append(files, f)

\* writeFile('input<i>.mp4') has resolved: the loop goes on over the bin as it
\* is now, and after the last clip writes 'mylist.txt' and starts exec.
MergeWriteDone(m) ==
  /\ merges[m].pc = "write"
  /\ ffmpeg = "loaded"
  /\ merges[m].i + 1 > Len(fsParts) => merges[m].i = Len(fsParts)
  /\ fsParts' = PutFile(fsParts, merges[m].i + 1, merges[m].cur)
  /\ LET next == merges[m].i + 1
     IN IF next < Len(mergeBin)
          THEN /\ merges' = [merges EXCEPT ![m].i = next, ![m].cur = mergeBin[next + 1]]
               /\ UNCHANGED fsList
          ELSE /\ merges' = [merges EXCEPT ![m].i = next, ![m].pc = "exec"]
               /\ fsList' = next
  /\ UNCHANGED <<mergeFrame, videoVars, status, mergeBin, mergeDisabled, fsIn, fsOut>>
  /\ UNCHANGED <<agentVars, recVars, dbVars, quotaDisplay>>

RECURSIVE PartsDur(_, _)
PartsDur(files, n) ==
  IF n = 0 THEN 0 ELSE files[n].dur + PartsDur(files, n - 1)

MergeExecDone(m) ==
  /\ merges[m].pc = "exec"
  /\ ffmpeg = "loaded"
  /\ PartsDur(fsParts, fsList) <= MaxDur
  /\ fsOut' = [origin |-> "merge", dur |-> PartsDur(fsParts, fsList)]
  /\ merges' = [merges EXCEPT ![m].pc = "read"]
  /\ UNCHANGED <<mergeFrame, videoVars, status, mergeBin, mergeDisabled, fsIn,
                 fsParts, fsList>>
  /\ UNCHANGED <<agentVars, recVars, dbVars, quotaDisplay>>

MergeReadDone(m) ==
  /\ merges[m].pc = "read"
  /\ ffmpeg = "loaded"
  /\ RevokeOld
  /\ SetVideoSrc(fsOut)
  /\ status' = "Merge successful!"
  /\ mergeBin' = << >>
  /\ mergeDisabled' = FALSE
  /\ merges' = RemoveAt(merges, m)
  /\ fsOut' = KeepOutput(ops, merges', fsOut)
  /\ UNCHANGED <<mergeFrame, fsIn, fsParts, fsList>>
  /\ UNCHANGED <<agentVars, recVars, dbVars, quotaDisplay>>

MergeFails(m) ==
  /\ status' = "An error occurred during merging."
  /\ mergeDisabled' = FALSE
  /\ merges' = RemoveAt(merges, m)
  /\ fsOut' = KeepOutput(ops, merges', fsOut)
  /\ UNCHANGED <<mergeFrame, videoVars, mergeBin, fsIn, fsParts, fsList>>
  /\ UNCHANGED <<agentVars, recVars, dbVars, quotaDisplay>>

\* ------------------------------------------------------------ the clip store
storeFrame == <<engineVars, videoVars, metaListener, displayVars, isEditorOpen,
                sliderVars, effectsSelect, editButtonsDisabled, genVars, ops,
                merges, adds, mergeDisabled, fsVars, toolResult, agentVars,
                recVars, quotaDisplay>>

\* The save button up to `await fetch(video.src)`; name is what prompt() gave.
SaveClick(name) ==
  /\ videoSrc # NoVideo
  /\ Len(saves) < MaxSaves
  /\ status' = "Saving clip..."
  /\ saves' = Append(saves, [name |-> name, dur |-> videoSrc.dur])
  /\ UNCHANGED <<storeFrame, myClips, mergeBin, store, lastKey, dbQueue>>

\* The blob and its thumbnail are there: dbAddClip opens its transaction.
SaveFetched(s) ==
  /\ pageLoaded
  /\ Len(dbQueue) < MaxRequests
  /\ dbQueue' = Append(dbQueue, [op |-> "add",
                                 clip |-> [id |-> 0, dur |-> saves[s].dur,
                                           name |-> saves[s].name]])
  /\ saves' = RemoveAt(saves, s)
  /\ UNCHANGED <<storeFrame, status, myClips, mergeBin, store, lastKey>>

\* fetch or generateThumbnail rejects, or db is still null: the catch block.
SaveFails(s) ==
  /\ status' = "Error saving clip."
  /\ saves' = RemoveAt(saves, s)
  /\ UNCHANGED <<storeFrame, myClips, mergeBin, store, lastKey, dbQueue>>

\* A clip's rename button: the object of the list is renamed, then
\* dbUpdateClip(clip) opens its transaction.  The merge bin holds the same
\* objects.
Renamed(clips, id, name) ==
  [i \in DOMAIN clips |-> IF clips[i].id = id THEN [clips[i] EXCEPT !.name = name]
                                              ELSE clips[i]]

RenameClick(k, name) ==
  /\ Len(dbQueue) < MaxRequests
  /\ myClips' = Renamed(myClips, myClips[k].id, name)
  /\ mergeBin' = Renamed(mergeBin, myClips[k].id, name)
  /\ dbQueue' = Append(dbQueue, [op |-> "put", clip |-> myClips'[k]])
  /\ UNCHANGED <<storeFrame, status, store, lastKey, saves>>

\* A clip's delete button, confirmed: dbDeleteClip(clip.id) opens its
\* transaction.
DeleteClick(k) ==
  /\ Len(dbQueue) < MaxRequests
  /\ dbQueue' = Append(dbQueue, [op |-> "delete", clip |-> myClips[k]])
  /\ UNCHANGED <<storeFrame, status, myClips, mergeBin, store, lastKey, saves>>

Without(clips, id) == SelectSeq(clips, LAMBDA c : c.id # id)

\* store.put(clip): the record with the clip's key is replaced, or added.
Put(clips, clip) == Append(Without(clips, clip.id), clip)

\* The oldest transaction completes, and the handler that awaits it goes on:
\* the save pushes the clip with its key, the delete filters the list.
DbDone ==
  /\ dbQueue # << >>
  /\ LET r == Head(dbQueue)
         added == [r.clip EXCEPT !.id = lastKey + 1]
     IN CASE r.op = "add" ->
               /\ lastKey < MaxKey
               /\ store' = Append(store, added)
               /\ lastKey' = lastKey + 1
               /\ myClips' = Append(myClips, added)
               /\ status' = "Clip saved!"
          [] r.op = "put" ->
               /\ store' = Put(store, r.clip)
               /\ UNCHANGED <<lastKey, myClips, status>>
          [] r.op = "delete" ->
               /\ store' = Without(store, r.clip.id)
               /\ myClips' = Without(myClips, r.clip.id)
               /\ UNCHANGED <<lastKey, status>>
  /\ dbQueue' = Tail(dbQueue)
  /\ UNCHANGED <<storeFrame, mergeBin, saves>>

\* The oldest transaction fails: the save shows it, the rename and the
\* delete handlers have no catch block.
DbFails ==
  /\ dbQueue # << >>
  /\ status' = IF Head(dbQueue).op = "add" THEN "Error saving clip." ELSE status
  /\ dbQueue' = Tail(dbQueue)
  /\ UNCHANGED <<storeFrame, myClips, mergeBin, store, lastKey, saves>>

\* ---------------------------------------------- recording and image upload
recFrame == <<engineVars, videoVars, metaListener, displayVars, isEditorOpen,
              sliderVars, effectsSelect, editButtonsDisabled, genVars, ops,
              binVars, fsVars, toolResult, agentVars, dbVars, quotaDisplay>>

\* stopRecording(): mediaRecorder.stop() throws on a recorder that is not
\* recording, and the rest of the function is not run.
StopRecording ==
  IF mediaRecorder = "recording"
    THEN /\ mediaRecorder' = "inactive"
         /\ recorders' = recorders - 1
         /\ stopsPending' = stopsPending + 1
         /\ isVideoRecording' = FALSE
         /\ timers' = IF timerArmed THEN timers - 1 ELSE timers
         /\ timerArmed' = FALSE
    ELSE UNCHANGED <<mediaRecorder, recorders, stopsPending, isVideoRecording,
                     timers, timerArmed>>

\* The record button: stopRecording(), or startRecording() up to its await.
RecordClick ==
  /\ ~genControlsDisabled
  /\ IF isVideoRecording
       THEN /\ stopsPending < MaxStops
            /\ StopRecording
            /\ UNCHANGED cameraRequests
       ELSE /\ cameraRequests < MaxCameraRequests
            /\ cameraRequests' = cameraRequests + 1
            /\ UNCHANGED <<mediaRecorder, recorders, stopsPending,
                           isVideoRecording, timers, timerArmed>>
  /\ UNCHANGED <<recordingSeconds, recordedVideoBlob, base64data, uploads>>
  /\ UNCHANGED <<recFrame, status>>

\* getUserMedia resolves: the rest of startRecording.  A recorder and an
\* interval that were there are left as they are, and lose their references.
CameraGranted ==
  /\ cameraRequests > 0
  /\ recorders < MaxRecorders
  /\ cameraRequests' = cameraRequests - 1
  /\ base64data' = ""
  /\ mediaRecorder' = "recording"
  /\ recorders' = recorders + 1
  /\ isVideoRecording' = TRUE
  /\ timers' = timers + 1
  /\ timerArmed' = TRUE
  /\ recordingSeconds' = 0
  /\ UNCHANGED <<stopsPending, recordedVideoBlob, uploads>>
  /\ UNCHANGED <<recFrame, status>>

\* getUserMedia rejects: the catch block of startRecording.
CameraDenied ==
  /\ cameraRequests > 0
  /\ cameraRequests' = cameraRequests - 1
  /\ status' = "Could not access camera. Please check permissions."
  /\ UNCHANGED <<mediaRecorder, recorders, isVideoRecording, timers, timerArmed,
                 recordingSeconds, stopsPending, recordedVideoBlob, base64data,
                 uploads>>
  /\ UNCHANGED recFrame

\* One turn of an interval: the count, and stopRecording() at the limit.
TimerTick ==
  /\ timers > 0
  /\ recordingSeconds < MaxSeconds
  /\ recordingSeconds' = recordingSeconds + 1
  /\ IF recordingSeconds' >= MAX_RECORDING_DURATION
       THEN stopsPending < MaxStops /\ StopRecording
       ELSE UNCHANGED <<mediaRecorder, recorders, stopsPending, isVideoRecording,
                        timers, timerArmed>>
  /\ UNCHANGED <<cameraRequests, recordedVideoBlob, base64data, uploads>>
  /\ UNCHANGED <<recFrame, status>>

\* mediaRecorder.onstop: the recording becomes recordedVideoBlob.
RecorderStopped ==
  /\ stopsPending > 0
  /\ stopsPending' = stopsPending - 1
  /\ recordedVideoBlob' = TRUE
  /\ UNCHANGED <<cameraRequests, mediaRecorder, recorders, isVideoRecording,
                 timers, timerArmed, recordingSeconds, base64data, uploads>>
  /\ UNCHANGED <<recFrame, status>>

\* A file is chosen in the upload input: resetRecordingState(), then the
\* handler awaits blobToBase64(file).
UploadChange ==
  /\ ~genControlsDisabled
  /\ uploads < MaxUploads
  /\ uploads' = uploads + 1
  /\ recordedVideoBlob' = FALSE
  /\ timers' = IF timerArmed THEN timers - 1 ELSE timers
  /\ timerArmed' = FALSE
  /\ UNCHANGED <<cameraRequests, mediaRecorder, recorders, isVideoRecording,
                 recordingSeconds, stopsPending, base64data>>
  /\ UNCHANGED <<recFrame, status>>

\* blobToBase64 resolves: the image is the conditioning image.
UploadRead ==
  /\ uploads > 0
  /\ uploads' = uploads - 1
  /\ base64data' = "image"
  /\ UNCHANGED <<cameraRequests, mediaRecorder, recorders, isVideoRecording,
                 timers, timerArmed, recordingSeconds, stopsPending,
                 recordedVideoBlob>>
  /\ UNCHANGED <<recFrame, status>>

\* blobToBase64 rejects: nothing catches it.
UploadFails ==
  /\ uploads > 0
  /\ uploads' = uploads - 1
  /\ UNCHANGED <<cameraRequests, mediaRecorder, recorders, isVideoRecording,
                 timers, timerArmed, recordingSeconds, stopsPending,
                 recordedVideoBlob, base64data>>
  /\ UNCHANGED <<recFrame, status>>

\* ------------------------------------------------------------ the agent loop
agentFrame == <<engineVars, videoVars, metaListener, displayVars, isEditorOpen,
                sliderVars, effectsSelect, editButtonsDisabled, status, genVars,
                ops, binVars, fsVars, recVars, dbVars, quotaDisplay>>

\* sendMessage() with text in the input, up to `await chat.sendMessage(...)`.
SendMessage ==
  /\ loops < MaxLoops
  /\ sendDisabled' = TRUE
  /\ loops' = loops + 1
  /\ UNCHANGED agentMessages

\* A click on the send button, which a disabled button does not deliver.
SendClick ==
  /\ ~sendDisabled
  /\ SendMessage
  /\ UNCHANGED <<agentFrame, toolResult>>

\* The Enter key in the input: the listener calls sendMessage().
EnterKeypress ==
  /\ SendMessage
  /\ UNCHANGED <<agentFrame, toolResult>>

\* recognition.onresult puts the transcript in the input and calls sendMessage().
SpeechResult ==
  /\ SendMessage
  /\ UNCHANGED <<agentFrame, toolResult>>

\* The end of a sendMessage call as it would be without the finally block.
LoopEndsWithoutFinally(messages) ==
  /\ agentMessages' = messages
  /\ loops' = loops - 1
  /\ UNCHANGED sendDisabled

\* A sendMessage call ends: finally enables the button.
LoopEnds(messages) ==
  /\ agentMessages' = messages
  /\ sendDisabled' = FALSE
  /\ loops' = loops - 1

\* The response has no function call: the loop is left and the text is shown.
ModelReturnsText ==
  /\ LoopFree
  /\ LoopEnds(<<"response.text">>)
  /\ UNCHANGED <<agentFrame, toolResult>>

\* chat.sendMessage rejects: the catch block.
ModelCallFails ==
  /\ LoopFree
  /\ LoopEnds(<<"Sorry, I encountered an error. Please try again.">>)
  /\ UNCHANGED <<agentFrame, toolResult>>

\* tools[name] for a name that is no key of the table: the lookup goes on to
\* Object.prototype, whose members are functions as well.
UnlistedNames == {"zoomVideo", "toString"}
ObjectPrototypeNames == {"toString", "valueOf", "constructor"}
ToolsLookup(name) ==
  IF name \in ToolNames THEN "handler"
  ELSE IF name \in ObjectPrototypeNames THEN "inherited"
  ELSE Undefined

\* The response asks for a function that is no key of the table.  If the
\* lookup gives undefined, the error is shown, the loop is left by break, and
\* response.text of the same response is shown; otherwise what the lookup gave
\* is called, and its result is sent to the model.
UnlistedToolRequested(name) ==
  /\ LoopFree
  /\ ToolsLookup(name) # "handler"
  /\ IF ToolsLookup(name) = Undefined
       THEN /\ LoopEnds(<<"Error: Unknown tool", "response.text">>)
            /\ UNCHANGED toolResult
       ELSE /\ toolResult' = "[object Undefined]"
            /\ UNCHANGED agentVars
  /\ UNCHANGED agentFrame

\* ------------------------------------------------------------ specification
Next ==
  \/ DOMContentLoaded
  \/ FFmpegLoaded
  \/ FFmpegLoadFails
  \/ LoadedMetadata
  \/ EditClick
  \/ CancelClick
  \/ \E e \in EffectChoices \ {"bogus"} : EffectsSelectChange(e)
  \/ \E v \in TimeChoices : TrimStartSliderInput(v)
  \/ \E v \in TimeChoices : TrimEndSliderInput(v)
  \/ \E v \in TimeChoices : TrimStartTimeInputChange(v)
  \/ \E v \in TimeChoices : TrimEndTimeInputChange(v)
  \/ ApplyTrimClick
  \/ ApplyEffectClick
  \/ \E i \in DOMAIN ops : OpWriteDone(i)
  \/ \E i \in DOMAIN ops : OpExecDone(i)
  \/ \E i \in DOMAIN ops : TrimReadDone(i)
  \/ \E i \in DOMAIN ops : EffectReadDone(i)
  \/ \E i \in DOMAIN ops : OpFails(i)
  \/ ToolOpenEditor
  \/ ToolCloseEditor
  \/ \E s, e \in TimeChoices : ToolTrimVideo(s, e)
  \/ \E name \in EffectChoices : ToolApplyEffect(name)
  \/ ToolClickGenerate
  \/ \E d \in DurationChoices : ToolSetDuration(d)
  \/ \E p \in PromptArgs : ToolSetPrompt(p)
  \/ \E a \in AspectRatioArgs : ToolSetAspectRatio(a)
  \/ \E q \in QualityArgs : ToolSetQuality(q)
  \/ \E name \in ToolNames, arg \in {"none", "empty"} : ToolThrows(name, arg)
  \/ \E p \in PromptArgs \ {Undefined} : PromptInput(p)
  \/ \E a \in AspectRatios : AspectRatioSelectChange(a)
  \/ \E r \in Resolutions : QualitySelectChange(r)
  \/ \E d \in DurationChoices : DurationInputChange(d)
  \/ \E p \in BOOLEAN : GenerateClick(p)
  \/ \E i \in DOMAIN gens : ThumbnailDone(i)
  \/ \E i \in DOMAIN gens : ThumbnailFails(i)
  \/ \E i \in DOMAIN gens : GenPoll(i)
  \/ \E i \in DOMAIN gens, n \in VideoCounts : GenDone(i, n)
  \/ \E i \in DOMAIN gens : GenFails(i)
  \/ \E i \in DOMAIN gens, err \in GenErrors : GenFailsWith(i, err)
  \/ \E j \in DOMAIN downloads : DownloadDone(j)
  \/ \E j \in DOMAIN downloads : DownloadFails(j)
  \/ \E k \in DOMAIN myClips : ClipLoadClick(k)
  \/ \E k \in DOMAIN myClips : ClipAddToBinClick(k)
  \/ \E k \in DOMAIN mergeBin : RemoveFromBinClick(k)
  \/ ClearBinClick
  \/ AddToBinClick
  \/ \E a \in DOMAIN adds : AddToBinDone(a)
  \/ \E a \in DOMAIN adds : AddToBinFails(a)
  \/ MergeClick
  \/ \E m \in DOMAIN merges : MergeWriteDone(m)
  \/ \E m \in DOMAIN merges : MergeExecDone(m)
  \/ \E m \in DOMAIN merges : MergeReadDone(m)
  \/ \E m \in DOMAIN merges : MergeFails(m)
  \/ SendClick
  \/ EnterKeypress
  \/ SpeechResult
  \/ ModelReturnsText
  \/ ModelCallFails
  \/ \E name \in UnlistedNames : UnlistedToolRequested(name)
  \/ RecordClick
  \/ CameraGranted
  \/ CameraDenied
  \/ TimerTick
  \/ RecorderStopped
  \/ UploadChange
  \/ UploadRead
  \/ UploadFails
  \/ \E name \in NameChoices : SaveClick(name)
  \/ \E s \in DOMAIN saves : SaveFetched(s)
  \/ \E s \in DOMAIN saves : SaveFails(s)
  \/ \E k \in DOMAIN myClips, name \in NameChoices : RenameClick(k, name)
  \/ \E k \in DOMAIN myClips : DeleteClick(k)
  \/ DbDone
  \/ DbFails

Spec == Init /\ [][Next]_vars

\* Sessions: the program with the user and the agent confined to part of the
\* page.  Each is a sub-relation of Next over the same state, so each of their
\* behaviours is one of Spec.

\* The agent edits a clip of the library by trims while the user moves the
\* sliders and types into the time inputs.
NextTrim ==
  \/ DOMContentLoaded
  \/ FFmpegLoaded
  \/ LoadedMetadata
  \/ \E k \in DOMAIN myClips \cap ShortClips : ClipLoadClick(k)
  \/ SendClick
  \/ ToolOpenEditor
  \/ ToolCloseEditor
  \/ \E s, e \in TimeChoices : ToolTrimVideo(s, e)
  \/ \E v \in TimeChoices : TrimStartSliderInput(v)
  \/ \E v \in TimeChoices : TrimEndSliderInput(v)
  \/ \E v \in TimeChoices : TrimStartTimeInputChange(v)
  \/ \E v \in TimeChoices : TrimEndTimeInputChange(v)
  \/ \E i \in DOMAIN ops : OpWriteDone(i)
  \/ \E i \in DOMAIN ops : OpExecDone(i)
  \/ \E i \in DOMAIN ops : TrimReadDone(i)
  \/ \E i \in DOMAIN ops : OpFails(i)

SpecTrim == Init /\ [][NextTrim]_vars

\* The user generates videos and trims them with the buttons; the agent opens
\* and closes the editor and starts generations.
NextGen ==
  \/ DOMContentLoaded
  \/ FFmpegLoaded
  \/ FFmpegLoadFails
  \/ LoadedMetadata
  \/ \E k \in DOMAIN myClips \cap ShortClips : ClipLoadClick(k)
  \/ EditClick
  \/ CancelClick
  \/ SendClick
  \/ ToolOpenEditor
  \/ ToolCloseEditor
  \/ ApplyTrimClick
  \/ \E i \in DOMAIN ops : OpWriteDone(i)
  \/ \E i \in DOMAIN ops : OpExecDone(i)
  \/ \E i \in DOMAIN ops : TrimReadDone(i)
  \/ \E i \in DOMAIN ops : OpFails(i)
  \/ Len(gens) < MaxSessionGens /\ ToolClickGenerate
  \/ Len(gens) < MaxSessionGens /\ \E p \in BOOLEAN : GenerateClick(p)
  \/ \E i \in DOMAIN gens : GenPoll(i)
  \/ \E i \in DOMAIN gens, n \in VideoCounts : GenDone(i, n)
  \/ \E i \in DOMAIN gens : GenFails(i)
  \/ \E j \in DOMAIN downloads : DownloadDone(j)
  \/ \E j \in DOMAIN downloads : DownloadFails(j)

SpecGen == Init /\ [][NextGen]_vars

\* The agent opens the editor on the first clip of the library, loaded into
\* an empty player; the user trims
\* and applies the slow-motion effect with the buttons while the agent applies
\* an effect of its own.
NextEffect ==
  \/ DOMContentLoaded
  \/ FFmpegLoaded
  \/ LoadedMetadata
  \/ videoSrc = NoVideo /\ \E k \in DOMAIN myClips \cap {1} : ClipLoadClick(k)
  \/ SendClick
  \/ ToolOpenEditor
  \/ CancelClick
  \/ \E e \in {"slowmo"} : EffectsSelectChange(e)
  \/ ApplyTrimClick
  \/ ApplyEffectClick
  \/ \E name \in {"grayscale"} : ToolApplyEffect(name)
  \/ \E i \in DOMAIN ops : OpWriteDone(i)
  \/ \E i \in DOMAIN ops : OpExecDone(i)
  \/ \E i \in DOMAIN ops : TrimReadDone(i)
  \/ \E i \in DOMAIN ops : EffectReadDone(i)
  \/ \E i \in DOMAIN ops : OpFails(i)

SpecEffect == Init /\ [][NextEffect]_vars

\* The same session with the grayscale filter only, which keeps the length of
\* the video.
NextFilter ==
  \/ DOMContentLoaded
  \/ FFmpegLoaded
  \/ LoadedMetadata
  \/ \E k \in DOMAIN myClips \cap {1} : ClipLoadClick(k)
  \/ SendClick
  \/ ToolOpenEditor
  \/ CancelClick
  \/ \E e \in {"grayscale"} : EffectsSelectChange(e)
  \/ ApplyTrimClick
  \/ ApplyEffectClick
  \/ \E name \in {"grayscale"} : ToolApplyEffect(name)
  \/ \E i \in DOMAIN ops : OpWriteDone(i)
  \/ \E i \in DOMAIN ops : OpExecDone(i)
  \/ \E i \in DOMAIN ops : TrimReadDone(i)
  \/ \E i \in DOMAIN ops : EffectReadDone(i)
  \/ \E i \in DOMAIN ops : OpFails(i)

SpecFilter == Init /\ [][NextFilter]_vars

\* Generations, clip loads and the ways to open and close the editor, without
\* edits.
NextOpen ==
  \/ DOMContentLoaded
  \/ FFmpegLoaded
  \/ FFmpegLoadFails
  \/ LoadedMetadata
  \/ \E k \in DOMAIN myClips \cap {1} : ClipLoadClick(k)
  \/ EditClick
  \/ CancelClick
  \/ SendClick
  \/ ToolOpenEditor
  \/ ToolCloseEditor
  \/ Len(gens) < MaxSessionGens /\ ToolClickGenerate
  \/ Len(gens) < MaxSessionGens /\ \E p \in BOOLEAN : GenerateClick(p)
  \/ \E i \in DOMAIN gens, n \in VideoCounts : GenDone(i, n)
  \/ \E i \in DOMAIN gens : GenFails(i)
  \/ \E j \in DOMAIN downloads : DownloadDone(j)
  \/ \E j \in DOMAIN downloads : DownloadFails(j)

SpecOpen == Init /\ [][NextOpen]_vars

\* A session of fades: the short clip and the two-second clip, the engine, the
\* editor opened by the agent, and the fade applied from the panel or by the
\* agent.
NextFade ==
  \/ DOMContentLoaded
  \/ FFmpegLoaded
  \/ LoadedMetadata
  \/ \E k \in DOMAIN myClips \cap {1, 3} : ClipLoadClick(k)
  \/ SendClick
  \/ ToolOpenEditor
  \/ \E e \in {"fade"} : EffectsSelectChange(e)
  \/ ApplyEffectClick
  \/ \E name \in {"fade"} : ToolApplyEffect(name)
  \/ \E i \in DOMAIN ops : OpWriteDone(i)
  \/ \E i \in DOMAIN ops : OpExecDone(i)
  \/ \E i \in DOMAIN ops : EffectReadDone(i)
  \/ \E i \in DOMAIN ops : OpFails(i)

SpecFade == Init /\ [][NextFade]_vars

\* A session around the merge bin: clips are loaded and put in the bin, taken
\* out again, and merged.
NextMerge ==
  \/ DOMContentLoaded
  \/ FFmpegLoaded
  \/ LoadedMetadata
  \/ \E k \in DOMAIN myClips \cap ShortClips : ClipLoadClick(k)
  \/ \E k \in DOMAIN myClips \cap ShortClips : ClipAddToBinClick(k)
  \/ \E k \in DOMAIN mergeBin : RemoveFromBinClick(k)
  \/ ClearBinClick
  \/ MergeClick
  \/ \E m \in DOMAIN merges : MergeWriteDone(m)
  \/ \E m \in DOMAIN merges : MergeExecDone(m)
  \/ \E m \in DOMAIN merges : MergeReadDone(m)
  \/ \E m \in DOMAIN merges : MergeFails(m)

SpecMerge == Init /\ [][NextMerge]_vars

\* The merge bin with one stored clip: the bin is filled and emptied, and
\* merges are started and fail in the engine.
NextBin ==
  \/ DOMContentLoaded
  \/ FFmpegLoaded
  \/ LoadedMetadata
  \/ \E k \in DOMAIN myClips \cap {1} : ClipLoadClick(k)
  \/ \E k \in DOMAIN myClips \cap {1} : ClipAddToBinClick(k)
  \/ \E k \in DOMAIN mergeBin : RemoveFromBinClick(k)
  \/ MergeClick
  \/ \E m \in DOMAIN merges : MergeWriteDone(m)
  \/ \E m \in DOMAIN merges : MergeFails(m)

SpecBin == Init /\ [][NextBin]_vars

\* The agent sets the generation settings and calls the editing tools, with
\* argument objects of every kind, on a clip the user loads.
NextConfig ==
  \/ DOMContentLoaded
  \/ LoadedMetadata
  \/ \E k \in DOMAIN myClips \cap {1} : ClipLoadClick(k)
  \/ SendClick
  \/ ToolOpenEditor
  \/ ToolCloseEditor
  \/ \E p \in PromptArgs : ToolSetPrompt(p)
  \/ \E a \in AspectRatioArgs : ToolSetAspectRatio(a)
  \/ \E d \in DurationArgs : ToolSetDuration(d)
  \/ \E q \in QualityArgs : ToolSetQuality(q)
  \/ \E name \in ToolNames, arg \in {"none", "empty"} : ToolThrows(name, arg)
  \/ \E a \in AspectRatios : AspectRatioSelectChange(a)
  \/ \E r \in Resolutions : QualitySelectChange(r)

SpecConfig == Init /\ [][NextConfig]_vars

\* The agent edits a clip while the engine is still loading: it opens and
\* closes the editor and calls trimVideo and applyEffect with arguments inside
\* and outside their domains, and every edit that starts fails in the engine.
NextReject ==
  \/ DOMContentLoaded
  \/ LoadedMetadata
  \/ \E k \in DOMAIN myClips \cap {1} : ClipLoadClick(k)
  \/ SendClick
  \/ ToolOpenEditor
  \/ ToolCloseEditor
  \/ \E s, e \in TrimArgs : ToolTrimVideo(s, e)
  \/ \E name \in {"grayscale", "bogus"} : ToolApplyEffect(name)
  \/ \E i \in DOMAIN ops : OpFails(i)

SpecReject == Init /\ [][NextReject]_vars

\* Generations whose job returns no video, one, or two, with the editor
\* opened on what the player holds.
NextJob ==
  \/ LoadedMetadata
  \/ EditClick
  \/ CancelClick
  \/ SendClick
  \/ ToolOpenEditor
  \/ Len(gens) < MaxSessionGens /\ ToolClickGenerate
  \/ Len(gens) < MaxSessionGens /\ \E p \in BOOLEAN : GenerateClick(p)
  \/ \E i \in DOMAIN gens : GenPoll(i)
  \/ \E i \in DOMAIN gens, n \in JobVideoCounts : GenDone(i, n)
  \/ \E i \in DOMAIN gens : GenFails(i)
  \/ \E j \in DOMAIN downloads : DownloadDone(j)
  \/ \E j \in DOMAIN downloads : DownloadFails(j)

SpecJob == Init /\ [][NextJob]_vars

\* A session in which every asynchronous operation the user starts can fail:
\* generation and the download of its video, the engine load, a trim, the
\* current video put in the bin, and a merge of such clips, which is stopped
\* before its exec.
NextFail ==
  \/ DOMContentLoaded
  \/ FFmpegLoaded
  \/ FFmpegLoadFails
  \/ LoadedMetadata
  \/ EditClick
  \/ ApplyTrimClick
  \/ \E i \in DOMAIN ops : OpWriteDone(i)
  \/ \E i \in DOMAIN ops : OpExecDone(i)
  \/ \E i \in DOMAIN ops : TrimReadDone(i)
  \/ \E i \in DOMAIN ops : OpFails(i)
  \/ \E p \in {TRUE} : GenerateClick(p)
  \/ \E i \in DOMAIN gens, n \in VideoCounts : GenDone(i, n)
  \/ \E i \in DOMAIN gens : GenFails(i)
  \/ \E j \in DOMAIN downloads : DownloadDone(j)
  \/ \E j \in DOMAIN downloads : DownloadFails(j)
  \/ AddToBinClick
  \/ \E a \in DOMAIN adds : AddToBinDone(a)
  \/ \E a \in DOMAIN adds : AddToBinFails(a)
  \/ MergeClick
  \/ \E m \in DOMAIN merges : MergeWriteDone(m)
  \/ \E m \in DOMAIN merges : MergeFails(m)

SpecFail == Init /\ [][NextFail]_vars

\* The agent edits a clip while messages are sent through the button, the
\* Enter key and the microphone; every edit that starts fails in the engine.
NextAgent ==
  \/ DOMContentLoaded
  \/ LoadedMetadata
  \/ \E k \in DOMAIN myClips \cap {1} : ClipLoadClick(k)
  \/ SendClick
  \/ EnterKeypress
  \/ SpeechResult
  \/ ToolOpenEditor
  \/ \E s, e \in {0, 2} : ToolTrimVideo(s, e)
  \/ \E name \in {"grayscale"} : ToolApplyEffect(name)
  \/ \E i \in DOMAIN ops : OpFails(i)
  \/ ModelReturnsText
  \/ ModelCallFails
  \/ \E name \in UnlistedNames : UnlistedToolRequested(name)

SpecAgent == Init /\ [][NextAgent]_vars

\* A conversation under the claim's assumptions: the engine is still loading,
\* so each edit the agent starts comes back from the engine with a failure;
\* the model's calls return or fail, and the model does not ask for tools for
\* ever.
NextLive ==
  \/ DOMContentLoaded
  \/ LoadedMetadata
  \/ \E k \in DOMAIN myClips \cap {1} : ClipLoadClick(k)
  \/ SendClick
  \/ EnterKeypress
  \/ ToolOpenEditor
  \/ \E s, e \in {0, 2} : ToolTrimVideo(s, e)
  \/ \E i \in DOMAIN ops : OpFails(i)
  \/ ModelReturnsText
  \/ ModelCallFails
  \/ \E name \in UnlistedNames : UnlistedToolRequested(name)

ToolCallReturns == \E i \in DOMAIN ops : OpFails(i)

SpecLive ==
  /\ Init
  /\ [][NextLive]_vars
  /\ WF_vars(ToolCallReturns)
  /\ SF_vars(ModelReturnsText)

\* The user records a video as conditioning source; the agent sets the
\* generation settings and starts generations, which end without a video.
NextRequest ==
  \/ RecordClick
  \/ CameraGranted
  \/ RecorderStopped
  \/ SendClick
  \/ \E p \in {"a cat"} : ToolSetPrompt(p)
  \/ \E a \in {"9:16"} : ToolSetAspectRatio(a)
  \/ \E q \in {"high"} : ToolSetQuality(q)
  \/ Len(gens) < MaxSessionGens /\ ToolClickGenerate
  \/ \E i \in DOMAIN gens : ThumbnailDone(i)
  \/ \E i \in DOMAIN gens : ThumbnailFails(i)
  \/ \E i \in DOMAIN gens : GenFails(i)

SpecRequest == Init /\ [][NextRequest]_vars

\* The conditioning source: the user records with the camera and uploads
\* images while the timer of the recording runs.
NextRecord ==
  \/ RecordClick
  \/ CameraGranted
  \/ CameraDenied
  \/ TimerTick
  \/ RecorderStopped
  \/ UploadChange
  \/ UploadRead
  \/ UploadFails

SpecRecord == Init /\ [][NextRecord]_vars

\* The clip library: the video of a loaded clip is saved under a name, the
\* first clip is renamed and deleted, and the store completes the
\* transactions in turn.
NextClips ==
  \/ DOMContentLoaded
  \/ \E k \in DOMAIN myClips \cap {1} : ClipLoadClick(k)
  \/ \E name \in {"a"} : SaveClick(name)
  \/ \E s \in DOMAIN saves : SaveFetched(s)
  \/ \E s \in DOMAIN saves : SaveFails(s)
  \/ \E k \in DOMAIN myClips \cap {1}, name \in {"b"} : RenameClick(k, name)
  \/ \E k \in DOMAIN myClips \cap {1} : DeleteClick(k)
  \/ DbDone

SpecClips == Init /\ [][NextClips]_vars

\* Generations started with the buttons that fail with errors of every kind,
\* or end without a video.
NextQuota ==
  \/ \E p \in BOOLEAN : GenerateClick(p)
  \/ \E p \in PromptArgs \ {Undefined} : PromptInput(p)
  \/ \E a \in AspectRatios : AspectRatioSelectChange(a)
  \/ \E d \in DurationChoices : DurationInputChange(d)
  \/ \E r \in Resolutions : QualitySelectChange(r)
  \/ \E i \in DOMAIN gens : GenPoll(i)
  \/ \E i \in DOMAIN gens, n \in {0} : GenDone(i, n)
  \/ \E i \in DOMAIN gens, err \in GenErrors : GenFailsWith(i, err)

SpecQuota == Init /\ [][NextQuota]_vars

\* The agent opens and closes the editor on the first clip of the library
\* while the user trims it from the panel.
NextEditor ==
  \/ DOMContentLoaded
  \/ FFmpegLoaded
  \/ FFmpegLoadFails
  \/ LoadedMetadata
  \/ videoSrc = NoVideo /\ \E k \in DOMAIN myClips \cap {1} : ClipLoadClick(k)
  \/ SendClick
  \/ ToolOpenEditor
  \/ ToolCloseEditor
  \/ CancelClick
  \/ ApplyTrimClick
  \/ \E i \in DOMAIN ops : OpWriteDone(i)
  \/ \E i \in DOMAIN ops : OpExecDone(i)
  \/ \E i \in DOMAIN ops : TrimReadDone(i)
  \/ \E i \in DOMAIN ops : OpFails(i)

SpecEditor == Init /\ [][NextEditor]_vars

\* Generations started with the button and by the agent, with and without a
\* recorded video, ending in each of the ways generate() can end.
NextControls ==
  \/ RecordClick
  \/ CameraGranted
  \/ RecorderStopped
  \/ SendClick
  \/ ToolClickGenerate
  \/ \E p \in BOOLEAN : GenerateClick(p)
  \/ \E i \in DOMAIN gens : ThumbnailDone(i)
  \/ \E i \in DOMAIN gens : ThumbnailFails(i)
  \/ \E i \in DOMAIN gens, n \in {0} : GenDone(i, n)
  \/ \E i \in DOMAIN gens : GenFails(i)

SpecControls == Init /\ [][NextControls]_vars

\* ------------------------------------------------------------ properties
\* C1: generation, trim, effect application and merge are mutually exclusive:
\* in every reachable state at most one of generate(), applyTrim(),
\* handleApplyEffect() and the merge handler is in flight.
C1_OneTransformInFlight == Len(gens) + Len(ops) + Len(merges) <= 1

\* C2: a trim that succeeds with the editor open ends with the editor still
\* open, the trim output as the video, and the trim range reset to
\* [0, new duration].
C2_TrimResetsRange ==
  [][\A i \in DOMAIN ops :
       TrimReadDone(i) /\ isEditorOpen =>
         /\ isEditorOpen'
         /\ videoSrc' = [origin |-> "trim",
                         dur |-> TrimDuration(ops[i].src, ops[i].s, ops[i].e)]
         /\ trimStart' = 0
         /\ trimEnd' = videoSrc'.dur]_vars

\* C3: whenever the editor is open and the duration of the video is known,
\* 0 <= start < end <= duration.
C3_RangeWithinVideo ==
  isEditorOpen /\ videoDuration # NaN =>
    0 <= trimStart /\ trimStart < trimEnd /\ trimEnd <= videoDuration

\* C4: from a range with start < end, an 'input' event of a slider, a 'change'
\* event of a time input or a trimVideo call leaves start < end.
C4_MutationsKeepOrder ==
  [][(/\ trimStart < trimEnd
      /\ \/ \E v \in TimeChoices : \/ TrimStartSliderInput(v)
                                   \/ TrimEndSliderInput(v)
                                   \/ TrimStartTimeInputChange(v)
                                   \/ TrimEndTimeInputChange(v)
         \/ \E s, e \in TimeChoices : ToolTrimVideo(s, e))
       => trimStart' < trimEnd']_vars

\* C5: an effect that succeeds leaves the editor open, makes the filter output
\* the video, resets the pending effect to none, and has the trim range reset
\* to [0, new duration] once the new duration is known.
C5_EffectKeepsEditor ==
  [][/\ \A i \in DOMAIN ops :
          EffectReadDone(i) =>
            /\ isEditorOpen'
            /\ videoSrc' = [origin |-> "effect",
                            dur |-> EffectDuration(ops[i].effect, ops[i].src)]
            /\ effectsSelect' = "none"
            /\ metaListener'
     /\ LoadedMetadata /\ metaListener =>
          /\ sliderMax' = videoSrc.dur
          /\ trimStart' = 0
          /\ trimEnd' = videoSrc.dur]_vars

\* C6: no step of a trim or an effect application that fails changes
\* isEditorOpen, the video or the trim range, and the failure leaves the
\* trim, effect and cancel buttons enabled.
C6_FailureChangesNothing ==
  [][\A i \in DOMAIN ops :
       /\ OpWriteDone(i) \/ OpExecDone(i) \/ OpFails(i) =>
            UNCHANGED <<isEditorOpen, videoSrc, videoDuration, sliderMax,
                        trimStart, trimEnd>>
       /\ OpFails(i) => ~editButtonsDisabled']_vars

C6_Witness ==
  /\ status \in {"An error occurred during trimming.",
                 "An error occurred while applying the effect."}
  /\ isEditorOpen
  /\ videoSrc # NoVideo
  /\ ops = << >>
  /\ ~editButtonsDisabled

C8_OpenEditorInitialises ==
  [][ToolOpenEditor /\ videoSrc # NoVideo =>
       IF isEditorOpen
         THEN UNCHANGED <<isEditorOpen, trimStart, trimEnd, effectsSelect>>
         ELSE /\ isEditorOpen'
              /\ trimStart' = 0
              /\ trimEnd' = videoSrc.dur
              /\ effectsSelect' = "none"]_vars

\* C9: closeEditor with the editor open closes it and resets the pending
\* effect; with the editor closed it changes nothing of the session.
C9_CloseEditorCloses ==
  [][ToolCloseEditor =>
       IF isEditorOpen
         THEN ~isEditorOpen' /\ effectsSelect' = "none"
         ELSE UNCHANGED <<isEditorOpen, videoSrc, displayVars, sliderVars,
                          effectsSelect>>]_vars

\* C10: when a generated video arrives in the player, it is the active video
\* and the editor is closed.
C10_GenerationClosesEditor ==
  [][\A j \in DOMAIN downloads :
       DownloadDone(j) =>
         /\ videoSrc' = GenVideo(downloads[j])
         /\ ~isEditorOpen']_vars

\* C11: a fade applied to a video shorter than 2 s is rejected when the write
\* of its input ends: the call leaves without an exec, the video and
\* 'output.mp4' are as they were, and the three editor buttons are enabled.
C11_ShortFadeRejected ==
  [][\A i \in DOMAIN ops :
       (/\ OpWriteDone(i)
        /\ ops[i].kind = "effect"
        /\ ops[i].effect = "fade"
        /\ ops[i].src < FadeMinDuration)
         => /\ ops' = RemoveAt(ops, i)
            /\ status' = "Video is too short for a fade effect."
            /\ ~editButtonsDisabled'
            /\ UNCHANGED <<videoSrc, fsOut>>]_vars

\* C12: a click on the merge button with fewer than 2 clips in the bin is
\* refused: no merge starts, no file of the engine is written, and the bin
\* and the video are as they were.
C12_MergeNeedsTwoClips ==
  [][MergeClick /\ Len(mergeBin) < 2 =>
       /\ status' = "Add at least 2 videos to merge."
       /\ UNCHANGED <<merges, fsVars, mergeBin, videoVars>>]_vars

C12_Witness ==
  /\ status = "Add at least 2 videos to merge."
  /\ Len(mergeBin) = 1
  /\ merges = << >>
  /\ fsParts = << >>

\* C13: a merge that succeeds makes the concatenation of the clips in the bin
\* the video and empties the bin; a merge that fails in the engine leaves the
\* bin and the video as they were.
C13_MergeOutcome ==
  [][\A m \in DOMAIN merges :
       /\ MergeReadDone(m) =>
            /\ videoSrc' = [origin |-> "merge", dur |-> PartsDur(mergeBin, Len(mergeBin))]
            /\ mergeBin' = << >>
       /\ MergeFails(m) => UNCHANGED <<mergeBin, videoSrc>>]_vars

\* C14: no tool call throws into the agent loop: whatever the tool and its
\* argument object, the call returns a string.
C14_ToolsNeverThrow == toolResult # Thrown

\* C15: the generation settings stay valid under the tools: after a call of
\* setAspectRatio, setDuration or setQuality the aspect ratio is one of the five
\* of the schema, the duration a positive integer and the resolution 720p or
\* 1080p, and a call with an argument outside the schema changes no setting.
ConfigValid ==
  /\ aspectRatio \in AspectRatios
  /\ duration \in Nat \ {0}
  /\ resolution \in Resolutions

SetterCall ==
  \/ \E a \in AspectRatioArgs : ToolSetAspectRatio(a)
  \/ \E d \in DurationArgs : ToolSetDuration(d)
  \/ \E q \in QualityArgs : ToolSetQuality(q)

OutOfSchemaCall ==
  \/ \E a \in AspectRatioArgs \ AspectRatios : ToolSetAspectRatio(a)
  \/ \E d \in DurationArgs \ (Nat \ {0}) : ToolSetDuration(d)
  \/ \E q \in QualityArgs \ {"standard", "high"} : ToolSetQuality(q)

C15_ConfigStaysValid ==
  [][/\ SetterCall => ConfigValid'
     /\ OutOfSchemaCall => UNCHANGED configVars]_vars

\* C16: a rejected editing command changes nothing: trimVideo or applyEffect
\* with the editor closed, trimVideo with start >= end, start < 0 or
\* end > duration, and applyEffect with a name that is no effect return a
\* rejection and leave the video, isEditorOpen, the trim range and the
\* selected effect as they were.
TrimRejections ==
  {"Please open the editor first before trimming.", "Invalid trim times."}

EffectRejections ==
  {"Please open the editor first before applying effects.", "Invalid effect."}

C16_RejectionChangesNothing ==
  [][/\ \A s, e \in TrimArgs :
          (/\ ~isEditorOpen \/ s >= e \/ s < 0 \/ e > videoDuration
           /\ ToolTrimVideo(s, e))
            => /\ toolResult' \in TrimRejections
               /\ UNCHANGED <<videoVars, isEditorOpen, sliderVars, effectsSelect, ops>>
     /\ \A name \in EffectChoices :
          (/\ ~isEditorOpen \/ name \notin ValidEffects
           /\ ToolApplyEffect(name))
            => /\ toolResult' \in EffectRejections
               /\ UNCHANGED <<videoVars, isEditorOpen, sliderVars, effectsSelect, ops>>]_vars

C16_Witness ==
  /\ toolResult = "Invalid trim times."
  /\ isEditorOpen
  /\ videoDuration # NaN
  /\ trimStart = 0
  /\ trimEnd = videoDuration

\* C17: the engine is loaded before it is used: the edit handler gets past
\* `await loadFFmpeg()`, and so opens the editor, only once the engine's load
\* has completed, and a trim, an effect or a merge starts only on a loaded
\* engine.
C17_EngineLoadedBeforeUse ==
  [][/\ ~isEditorOpen /\ isEditorOpen' => ffmpeg' = "loaded"
     /\ Len(ops') > Len(ops) \/ Len(merges') > Len(merges) => ffmpeg = "loaded"]_vars

\* C18: a job that ends with no video is a failure that leaves the video as
\* it was and starts no download; of the videos of a job only the first one
\* becomes the video of the player.
C18_FirstVideoOnly ==
  [][/\ \A i \in DOMAIN gens :
          GenDone(i, 0) => /\ status' = "No videos generated"
                           /\ UNCHANGED <<videoVars, downloads>>
     /\ \A j \in DOMAIN downloads :
          DownloadDone(j) => downloads[j].index = 1]_vars

\* C19: a generation that fails (the submission or a poll rejects, or the job
\* has no video) leaves the session as it was: the video, the editor flag,
\* the trim range and the selected effect are unchanged, and a generated
\* video, which the player showed when it arrived, is shown.
C19_FailedGenerationKeepsSession ==
  [][\A i \in DOMAIN gens :
       GenFails(i) \/ GenDone(i, 0) =>
         /\ UNCHANGED <<videoVars, isEditorOpen, sliderVars, effectsSelect>>
         /\ videoSrc.origin = "gen" => videoDisplay']_vars

\* C20: every failure of an asynchronous operation the user started ends in a
\* failure message in the status line: a generation or the download of its
\* video, the engine load the edit handler waits for, a trim, an effect, a
\* merge, and the current video put in the bin.
FailureStatuses ==
  {"Generation failed.", "No videos generated",
   "An error occurred during trimming.",
   "An error occurred while applying the effect.",
   "An error occurred during merging.", "Error adding video to bin."}

UserOperationFails ==
  \/ \E i \in DOMAIN gens : GenFails(i) \/ GenDone(i, 0)
  \/ \E j \in DOMAIN downloads : DownloadFails(j)
  \/ FFmpegLoadFails /\ loadCaller = "edit"
  \/ \E i \in DOMAIN ops : OpFails(i)
  \/ \E m \in DOMAIN merges : MergeFails(m)
  \/ \E a \in DOMAIN adds : AddToBinFails(a)

C20_FailuresAreReported ==
  [][UserOperationFails => status' \in FailureStatuses]_vars

\* C29: the editor panel is displayed exactly when isEditorOpen is true.
C29_PanelFollowsFlag == editorDisplay <=> isEditorOpen

\* C30: a success confirmation of trimVideo or applyEffect is truthful: the
\* call that returns it has just replaced the video by the output of its own
\* trim or filter.
SuccessReturned ==
  /\ toolResult' # toolResult
  /\ toolResult' \in {"Video trimmed successfully.", "Applied the effect successfully."}

OwnOutputInstalled ==
  \E i \in DOMAIN ops :
    /\ ops[i].caller = "tool"
    /\ \/ /\ TrimReadDone(i)
          /\ videoSrc' = [origin |-> "trim", dur |-> TrimDuration(ops[i].src, ops[i].s, ops[i].e)]
       \/ /\ EffectReadDone(i)
          /\ videoSrc' = [origin |-> "effect", dur |-> EffectDuration(ops[i].effect, ops[i].src)]

C30_SuccessIsTruthful == [][SuccessReturned => OwnOutputInstalled]_vars


\* C21: the agent loop executes tool calls one at a time: in every reachable
\* state at most one tool handler invoked by the agent is in flight.
C21_OneToolInFlight == ToolsInFlight <= 1


\* C22: when the model requests a tool whose name is no key of the dispatcher
\* table, the loop stops: no handler is run and nothing more is sent to the
\* model (the sendMessage call ends without a call result), the error naming
\* the tool is shown, and the send button is enabled.
UnlistedRequest == \E name \in UnlistedNames : UnlistedToolRequested(name)

LoopStoppedWithError ==
  /\ loops' = loops - 1
  /\ toolResult' = toolResult
  /\ agentMessages'[1] = "Error: Unknown tool"
  /\ ~sendDisabled'

C22_UnknownToolStops == [][UnlistedRequest => LoopStoppedWithError]_vars


\* C23: the loop ends with the response that has no tool call: the final text
\* is shown once and the send button is enabled; and if the model stops asking
\* for tools and every call returns or fails, a disabled send button is
\* eventually enabled again.
FinalTextShownOnce ==
  /\ agentMessages' = <<"response.text">>
  /\ loops' = loops - 1
  /\ ~sendDisabled'

C23_LoopTerminates ==
  /\ [][ModelReturnsText => FinalTextShownOnce]_vars
  /\ sendDisabled ~> ~sendDisabled

C23_Witness ==
  /\ agentMessages = <<"response.text">>
  /\ toolResult = "Video trimmed successfully."
  /\ loops = 0
  /\ ~sendDisabled


\* C24: the request a generation submits carries the prompt, conditioning
\* image, aspect ratio, duration and resolution that were current when
\* generate() was called by clickGenerate, whatever is set afterwards.
Submitted(g) == g.pc \in {"submit", "poll"} /\ ~g.preview

C24_RequestIsSnapshot ==
  \A i \in DOMAIN gens :
    Submitted(gens[i]) =>
      /\ gens[i].prompt = gens[i].atCall.prompt
      /\ gens[i].aspectRatio = gens[i].atCall.aspectRatio
      /\ gens[i].dur = gens[i].atCall.duration * TicksPerSecond
      /\ gens[i].resolution = gens[i].atCall.resolution
      /\ gens[i].image = gens[i].atCall.image


\* C25: every replacement of the active video releases the object URL of the
\* video it replaces: of the URLs that were assigned to the player, only the
\* current one is not revoked.
C25_OnlyCurrentUrlLive == ~staleUrl


\* C26: a recording never runs longer than 30 seconds: whenever a
\* MediaRecorder is recording, the interval that stops it at 30 ticks is
\* armed and has counted fewer than 30.
C26_RecordingIsTimed ==
  recorders > 0 =>
    /\ timerArmed
    /\ timers > 0
    /\ recordingSeconds < MAX_RECORDING_DURATION


\* C27: every clip of the in-memory list has an id, and when a save, rename
\* or delete completes and none is left in flight, the list has the ids and
\* names of the persisted store.
Entries(clips) == {<<clips[i].id, clips[i].name>> : i \in DOMAIN clips}

LastCompleted == DbDone /\ dbQueue' = << >>

ListMatchesStore ==
  /\ \A i \in DOMAIN myClips' : myClips'[i].id > 0
  /\ Entries(myClips') = Entries(store')

ShownByKind(err) ==
  /\ err.network => (status' = NetworkMessage /\ ~quotaDisplay')
  /\ err.code = 429 => (quotaDisplay' /\ status' = "")
  /\ (~err.network /\ err.code # 429) =>
       (status' # NetworkMessage /\ ~quotaDisplay')

QuotaHidden == quotaDisplay /\ ~quotaDisplay'

C28_FailureKinds ==
  [][/\ \A i \in DOMAIN gens, err \in GenErrors :
          GenFailsWith(i, err) => ShownByKind(err)
     /\ QuotaHidden => Len(gens') > Len(gens)]_vars


\* C31: the editor-state strings of the dispatcher match the state: when
\* closeEditor returns 'Video editor closed.' the editor is closed on return,
\* also while a trim or effect is in flight; and when openEditor has returned
\* 'Video editor opened.' no later tool call runs before the editor is open.
OpenStillPending ==
  /\ toolResult = "Video editor opened."
  /\ ~isEditorOpen
  /\ ffmpeg = "loading"
  /\ loadCaller = "edit"

C31_EditorStringsMatchState ==
  [][/\ (ToolCloseEditor /\ toolResult' = "Video editor closed.") => ~isEditorOpen'
     /\ (ToolOpenEditor \/ ToolCloseEditor) => ~OpenStillPending]_vars


\* C32: a merge consumes exactly the clips that were in the bin when it
\* started: however clips are added, removed or cleared while it is in
\* flight, the output of a merge that succeeds is the concatenation of the
\* bin at its start, and a clip that came into the bin while it was in flight
\* (one in the bin that was not there at the start) is in the bin afterwards.
InBin(clip, bin) == \E k \in DOMAIN bin : bin[k] = clip

AddedInFlight(m) == {mergeBin[k] : k \in DOMAIN mergeBin} \ 
                      {merges[m].start[k] : k \in DOMAIN merges[m].start}

C32_MergeConsumesStartBin ==
  [][\A m \in DOMAIN merges :
       MergeReadDone(m) =>
         /\ videoSrc' = [origin |-> "merge",
                         dur |-> PartsDur(merges[m].start, Len(merges[m].start))]
         /\ \A clip \in AddedInFlight(m) : InBin(clip, mergeBin')]_vars


\* C33: at most one conditioning source is held at a time: the uploaded
\* image and the recorded video are never both present.
C33_OneConditioningSource == ~(base64data # "" /\ recordedVideoBlob)


\* C34: the generation controls are disabled while a generate() call is in
\* flight and enabled once none is, whichever way the calls end and also
\* when several of them overlap.
C34_ControlsFollowGenerations == genControlsDisabled <=> gens # << >>

====
